---- MODULE Spec2Model ----
(***************************************************************************)
(* Rest/fatigue derivation, Chemistry Index and season collection of      *)
(* NBADataCollector (src/src/data_collector.py) over the games collection  *)
(* of NBADatabase (src/src/database.py).                                   *)
(*                                                                         *)
(* Dates are whole days counted from 2024-01-01 (day 0): every datetime    *)
(* the collectors store comes from pd.to_datetime of a date-only string,   *)
(* so it is a midnight.  fatigue_index is kept in tenths and               *)
(* schedule_difficulty in 210ths (210 = 7 * 3 * 10), which makes every     *)
(* sum of the code exact; the floating-point results of the code differ    *)
(* from these by at most one unit in the last place and compare the same   *)
(* way against 0, 0.7 and 1.                                               *)
(*                                                                         *)
(* The Chemistry Index (_calculate_chemistry_index) is computed in IEEE   *)
(* double precision, as MinMaxScaler and np.mean compute it: a float is a  *)
(* sign, a 53-bit significand held in limbs of 15 bits and an exponent,    *)
(* and every operation rounds to nearest, ties to even.                    *)
(*                                                                         *)
(* Season collection (collect_season_games, collect_multiple_seasons) and  *)
(* the reads (get_games, get_collection_stats, get_team_stats) work on the *)
(* same db.games; the API's answer and the failures of the database are    *)
(* chosen freely.                                                          *)
(*                                                                         *)
(* Four operations work outside db.games, each on a variable of its own:   *)
(* HybridNBACollector.calculate_team_chemistry_index                       *)
(* (src/src/hybrid_data_collector.py), NBADatabase.connect_with_retry,     *)
(* DatasetCollector.collect_complete_dataset                               *)
(* (src/scripts/collect_first_dataset.py), whose collector calls return or *)
(* raise freely, and NBADataCollector.collect_injury_reports.               *)
(*                                                                         *)
(* Not modelled: MATCHUP / is_home_game, collected_at, calculated_at, the  *)
(* values of inserted_at and _id, chemistry_percentile, metric values that *)
(* are None, NaN or beyond the whole numbers of the model, the averages of *)
(* get_team_stats, the metric values copied into a hybrid chemistry        *)
(* record, last_game_date, quick_test, an insert_many that fails after     *)
(* storing part of a batch, and the log output.                            *)
(***************************************************************************)
EXTENDS Integers, Sequences, FiniteSets, Bags, TLC

VARIABLES
    games,              \* db.games: a bag of game rows, each row by its number
                        \* in RowTable
    team_rest_fatigue,  \* db.team_rest_fatigue: a bag of rest records
    last_call,          \* the operation that ran last, with its argument
    ret,                \* the value that operation returned
    team_schedules,     \* local of the derivation run just made: team -> rows
    processed,          \* local of the derivation run just made: team -> outcome per row
    rest_data,          \* local of the derivation run just made: the records emitted
    runs,               \* number of derivation runs so far
    calc,               \* a direct call of one of the two score functions
    chemistry_records,  \* the batch of _calculate_chemistry_index: its argument
                        \* before the call, the list it returned after
    prev_records,       \* the list the call before the last one returned
    chem_phase,         \* "input", "calculated" or "recalculated"
    request,            \* the collection or read call made last: its arguments
                        \* and what it met at the API and the database
    events,             \* the calls the last collect_multiple_seasons made
    season_games,       \* a season's games as find(...).sort(...) returns them,
                        \* for a derivation over one long schedule
    moving_window,      \* the moving_window argument of the Chemistry Index call
    hybrid,             \* HybridNBACollector.calculate_team_chemistry_index: the
                        \* hustle data, and what the call stored and returned
    conn,               \* NBADatabase.connect_with_retry: its argument, the
                        \* attempts and waits made, and how it ended
    dataset,            \* DatasetCollector.collect_complete_dataset: the phases
                        \* attempted and collection_summary
    injury              \* collect_injury_reports: the players' game rows and
                        \* the reports made of them

chem_vars == <<chemistry_records, prev_records, chem_phase>>
coll_vars == <<request, events>>
aux_vars == <<season_games, moving_window, hybrid, conn, dataset, injury>>
rest_vars == <<games, team_rest_fatigue, last_call, ret, team_schedules, processed,
               rest_data, runs, calc>>

vars == <<games, team_rest_fatigue, last_call, ret, team_schedules, processed,
          rest_data, runs, calc, chemistry_records, prev_records, chem_phase,
          request, events, season_games, moving_window, hybrid, conn, dataset,
          injury>>

\* nothing at hand for the operations that work outside db.games
Idle == [phase |-> "idle"]
NoAux ==
    /\ season_games = <<>>
    /\ moving_window = 0
    /\ hybrid = Idle
    /\ conn = Idle
    /\ dataset = Idle
    /\ injury = Idle

----------------------------------------------------------------------------
(* Bounds of the model *)

MaxGames == 3        \* rows in db.games
MaxRuns == 2         \* derivation runs in a behaviour of Spec
MaxDeriveRuns == 1   \* derivation runs in a behaviour of SpecDerive
MaxRetries == 4      \* the max_retries argument of connect_with_retry
MaxPlayerGames == 2  \* rows in the game log of a player

----------------------------------------------------------------------------
(* Values *)

\* TEAM_NAME absent, None or empty: falsy in `if team_name:`
NoTeam == ""
TeamNames == {"A", "B"}
GameIds == {1, 2}
\* the season argument of a derivation run; the rows of the model all belong
\* to the first one
Seasons == {"2023-24", "2022-23"}
StoredSeasons == {"2023-24"}
Days == {0, 1}

\* the strings stored as GAME_DATE, and their code points
DateStrings == {"2024-01-02", "TBD"}
CodePoints(s) ==
    CASE s = "2024-01-02" -> <<50, 48, 50, 52, 45, 48, 49, 45, 48, 50>>
      [] s = "TBD" -> <<84, 66, 68>>
      [] s = "2023-24" -> <<50, 48, 50, 51, 45, 50, 52>>
      [] s = "2022-23" -> <<50, 48, 50, 50, 45, 50, 51>>
      [] OTHER -> <<>>

\* A GAME_DATE value: a datetime (k = "dt", day d), a string (k = "str",
\* text s), null (k = "null") or no GAME_DATE key at all (k = "missing")
DtVal(d) == [k |-> "dt", d |-> d, s |-> ""]
StrVal(s) == [k |-> "str", d |-> 0, s |-> s]
NullVal == [k |-> "null", d |-> 0, s |-> ""]
MissingVal == [k |-> "missing", d |-> 0, s |-> ""]

\* cells of a DataFrame's GAME_DATE column; NaT is pandas' missing value
NaTVal == [k |-> "nat", d |-> 0, s |-> ""]
DateCells == {DtVal(d) : d \in Days} \cup {StrVal(s) : s \in DateStrings} \cup {NaTVal}

DfRows == [TEAM_NAME : TeamNames, GAME_ID : GameIds,
           SEASON : StoredSeasons, GAME_DATE : DateCells]

\* A DataFrame: its rows, and whether it has a GAME_DATE column at all (the
\* cell is NaT when it has none).  The DataFrames of the model hold at most
\* one row: insert_many(ordered=False) into a collection without a unique
\* index inserts every row on its own, so a longer DataFrame leaves the
\* collection as the same rows inserted one call at a time do.
BatchSizes == {0, 1}
DataFrames ==
    {df \in [rows : UNION {[1..n -> DfRows] : n \in BatchSizes}, has_date : BOOLEAN] :
        df.has_date \/ \A i \in 1..Len(df.rows) : df.rows[i].GAME_DATE = NaTVal}

----------------------------------------------------------------------------
(* Sequence helpers *)

RECURSIVE SeqToBag(_)
SeqToBag(s) ==
    IF s = <<>> THEN EmptyBag ELSE SetToBag({Head(s)}) (+) SeqToBag(Tail(s))

RECURSIVE BagList(_)
\* the elements of bag B listed in some order
BagList(B) ==
    IF BagToSet(B) = {} THEN <<>>
    ELSE LET x == CHOOSE y \in BagToSet(B) : TRUE
         IN <<x>> \o BagList(B (-) SetToBag({x}))

\* all orders in which the elements of bag B can be listed
BagSeqs(B) ==
    LET l == BagList(B)
    IN {[i \in 1..Len(l) |-> l[p[i]]] : p \in Permutations(1..Len(l))}

\* the non-decreasing sequences of n numbers of 1..hi
Ascending(n, hi) ==
    {s \in [1..n -> 1..hi] : \A i \in 1..(n - 1) : s[i] <= s[i + 1]}

\* the bags of n numbers of 1..hi, each bag once
BagsOf(n, hi) == {SeqToBag(s) : s \in Ascending(n, hi)}

\* F(v), with v evaluated once
Once(F(_), v) == CHOOSE r \in {F(x) : x \in {v}} : TRUE

RECURSIVE Tabulate(_, _)
\* the list <<F(1), ..., F(n)>>
Tabulate(F(_), n) == IF n = 0 THEN <<>> ELSE Append(Tabulate(F, n - 1), F(n))

----------------------------------------------------------------------------
(* NBADatabase.insert_games *)

\* pd.isna(value) -> None; a DataFrame without a GAME_DATE column gives rows
\* without that key
StoredDate(cell, has_date) ==
    IF ~has_date THEN MissingVal
    ELSE IF cell.k = "nat" THEN NullVal
    ELSE cell

StoredRow(row, has_date) ==
    [TEAM_NAME |-> row.TEAM_NAME, GAME_ID |-> row.GAME_ID, SEASON |-> row.SEASON,
     GAME_DATE |-> StoredDate(row.GAME_DATE, has_date)]

games_list(df) == [i \in 1..Len(df.rows) |-> StoredRow(df.rows[i], df.has_date)]

\* every row insert_games can store, listed; db.games holds row numbers
StoredRows == {StoredRow(r, h) : r \in DfRows, h \in BOOLEAN}
\* the rows collect_season_games stores for the seasons it is called with
CollectedRows ==
    [TEAM_NAME : TeamNames, GAME_ID : GameIds, SEASON : Seasons,
     GAME_DATE : {DtVal(d) : d \in Days}]
\* rows with the columns get_team_stats reads; PTS is None where the
\* DataFrame held NaN
SeasonTypes == {"Regular Season", "Playoffs"}
StatRows ==
    [TEAM_NAME : TeamNames, GAME_ID : {1}, SEASON : StoredSeasons,
     SEASON_TYPE : SeasonTypes, GAME_DATE : {[k |-> "dt", d |-> 0, s |-> ""]},
     WL : {"W", "L"}, PTS : {<<>>, <<100>>}]
RowTable ==
    BagList(SetToBag(StoredRows)) \o BagList(SetToBag(CollectedRows \ StoredRows))
      \o BagList(SetToBag(StatRows))
RowNumber(row) == CHOOSE n \in 1..Len(RowTable) : RowTable[n] = row
RowNumbers(docs) == [i \in 1..Len(docs) |-> RowNumber(docs[i])]

\* insert_many(games_list, ordered=False): the collection has no unique index
\* (create_indexes makes none), so every document is inserted
InsertMany(coll, docs) == coll (+) SeqToBag(docs)

insert_games(games_df) ==
    /\ BagCardinality(games) + Len(games_df.rows) <= MaxGames
    /\ IF games_df.rows = <<>>
       THEN /\ games' = games
            /\ ret' = 0
       ELSE /\ games' = InsertMany(games, RowNumbers(games_list(games_df)))
            /\ ret' = Len(games_list(games_df))
    /\ last_call' = [op |-> "insert_games", season |-> ""]
    /\ team_schedules' = <<>>
    /\ processed' = <<>>
    /\ rest_data' = <<>>
    /\ UNCHANGED <<team_rest_fatigue, runs, calc>>
    /\ UNCHANGED chem_vars
    /\ UNCHANGED aux_vars
    /\ UNCHANGED coll_vars

----------------------------------------------------------------------------
(* Dates: pd.to_datetime, datetime arithmetic and the two orderings *)

IsDigit(c) == c \in 48..57

RECURSIVE Num(_, _, _)
\* the decimal number written at positions i..j of s
Num(s, i, j) == IF j < i THEN 0 ELSE 10 * Num(s, i, j - 1) + (s[j] - 48)

IsLeap(y) == (y % 4 = 0 /\ y % 100 # 0) \/ y % 400 = 0

DaysInMonth(y, m) ==
    IF m = 2 THEN (IF IsLeap(y) THEN 29 ELSE 28)
    ELSE IF m \in {4, 6, 9, 11} THEN 30 ELSE 31

\* days from 1970-01-01 to y-m-d in the proleptic Gregorian calendar
DaysFromCivil(y, m, d) ==
    LET yy == IF m <= 2 THEN y - 1 ELSE y
        era == yy \div 400
        yoe == yy - era * 400
        mp == IF m > 2 THEN m - 3 ELSE m + 9
        doy == (153 * mp + 2) \div 5 + d - 1
        doe == yoe * 365 + yoe \div 4 - yoe \div 100 + doy
    IN era * 146097 + doe - 719468

\* day 0 of the model is 2024-01-01
DayOf(y, m, d) == DaysFromCivil(y, m, d) - DaysFromCivil(2024, 1, 1)

\* datetime.min is 0001-01-01
DatetimeMin == DayOf(1, 1, 1)

\* the strings of the model are ISO dates "YYYY-MM-DD" or not dates at all
\* (s: code points)
IsIsoDate(s) ==
    /\ Len(s) = 10
    /\ s[5] = 45 /\ s[8] = 45
    /\ \A i \in {1, 2, 3, 4, 6, 7, 9, 10} : IsDigit(s[i])
    /\ Num(s, 1, 4) >= 1
    /\ Num(s, 6, 7) \in 1..12
    /\ Num(s, 9, 10) \in 1..DaysInMonth(Num(s, 1, 4), Num(s, 6, 7))

\* pd.to_datetime(str) raises on text that is no date
to_datetime_raises(str) == ~IsIsoDate(CodePoints(str))
to_datetime(str) ==
    LET s == CodePoints(str)
    IN DtVal(DayOf(Num(s, 1, 4), Num(s, 6, 7), Num(s, 9, 10)))

\* game.get('GAME_DATE'): None for a null value and for a missing key
IsNone(v) == v.k \in {"null", "missing"}

\* `if isinstance(x, str): x = pd.to_datetime(x)`
ConvRaises(v) == v.k = "str" /\ to_datetime_raises(v.s)
Conv(v) == IF v.k = "str" THEN to_datetime(v.s) ELSE v

\* a - b on converted values: TypeError when either is None
SubRaises(a, b) == IsNone(a) \/ IsNone(b)
\* (a - b).days
SubDays(a, b) == Conv(a).d - Conv(b).d

RECURSIVE LexLess(_, _)
\* lexicographic order of code point sequences, a proper prefix first
LexLess(a, b) ==
    IF b = <<>> THEN FALSE
    ELSE IF a = <<>> THEN TRUE
    ELSE IF Head(a) # Head(b) THEN Head(a) < Head(b)
    ELSE LexLess(Tail(a), Tail(b))

\* str < str
StrLess(a, b) == LexLess(CodePoints(a), CodePoints(b))

\* MongoDB's sort order on GAME_DATE: null and missing first, then strings,
\* then dates
BsonRank(v) == IF IsNone(v) THEN 0 ELSE IF v.k = "str" THEN 1 ELSE 2
MongoLess(a, b) ==
    \/ BsonRank(a) < BsonRank(b)
    \/ /\ BsonRank(a) = BsonRank(b)
       /\ \/ a.k = "str" /\ StrLess(a.s, b.s)
          \/ a.k = "dt" /\ a.d < b.d

\* games.find({'SEASON': season}).sort('GAME_DATE', 1): the matching rows in
\* ascending order; the order of rows with equal GAME_DATE is not determined
Matching(season) ==
    LET S == {n \in BagToSet(games) : RowTable[n].SEASON = season}
    IN [n \in S |-> games[n]]

FindSorted(season) ==
    {s \in {[i \in 1..Len(ns) |-> RowTable[ns[i]]] : ns \in BagSeqs(Matching(season))} :
        \A i \in 1..(Len(s) - 1) : ~MongoLess(s[i + 1].GAME_DATE, s[i].GAME_DATE)}

\* the sort key x.get('GAME_DATE', datetime.min)
SortKey(g) == IF g.GAME_DATE.k = "missing" THEN DtVal(DatetimeMin) ELSE g.GAME_DATE

\* Python's < on two keys: TypeError unless both are datetimes or both strings
LtRaises(a, b) == ~((a.k = "dt" /\ b.k = "dt") \/ (a.k = "str" /\ b.k = "str"))
Lt(a, b) == IF a.k = "dt" THEN a.d < b.d ELSE StrLess(a.s, b.s)

\* list.sort raises when a comparison it makes raises; a list of two or more
\* keys that are not all mutually comparable always leads to such a comparison
SortRaises(gs) ==
    /\ Len(gs) >= 2
    /\ \E i, j \in 1..Len(gs) : i # j /\ LtRaises(SortKey(gs[i]), SortKey(gs[j]))

\* x put into the sorted list s after every element that is not greater
InsertSorted(s, x) ==
    LET p == Cardinality({i \in 1..Len(s) : ~Lt(SortKey(x), SortKey(s[i]))})
    IN SubSeq(s, 1, p) \o <<x>> \o SubSeq(s, p + 1, Len(s))

RECURSIVE PySort(_)
\* games.sort(key=...): stable, ascending
PySort(gs) ==
    IF gs = <<>> THEN <<>>
    ELSE InsertSorted(PySort(SubSeq(gs, 1, Len(gs) - 1)), gs[Len(gs)])

----------------------------------------------------------------------------
(* NBADataCollector._calculate_schedule_difficulty, _calculate_fatigue_index *)

Min(a, b) == IF a <= b THEN a ELSE b
Max(a, b) == IF a >= b THEN a ELSE b

\* one unit of schedule_difficulty is 1/210, one unit of fatigue_index 1/10
SdOne == 210
FiOne == 10

\* min(games_in_7_days / 7.0, 1.0) * 0.6 + max(0, (3 - days_rest) / 3.0) * 0.4
calculate_schedule_difficulty(games_in_7_days, days_rest) ==
    LET game_density == Min(30 * games_in_7_days, SdOne)   \* in 210ths
        rest_factor == Max(0, 70 * (3 - days_rest))        \* in 210ths
    IN (game_density * 6 + rest_factor * 4) \div 10

\* calculate_fatigue_index with `fatigue -= 0.2` in the one-day-rest branch
calculate_fatigue_index_sign(days_rest, games_in_7_days, is_back_to_back) ==
    LET b2b == IF is_back_to_back THEN 4 ELSE 0
        rest == IF days_rest = 0 THEN 3
                ELSE IF days_rest = 1 THEN 0 - 2
                ELSE IF days_rest = 2 THEN 1
                ELSE 0
        freq == IF games_in_7_days >= 4 THEN 3
                ELSE IF games_in_7_days >= 3 THEN 2
                ELSE 0
    IN Min(b2b + rest + freq, FiOne)

calculate_fatigue_index(days_rest, games_in_7_days, is_back_to_back) ==
    LET b2b == IF is_back_to_back THEN 4 ELSE 0
        rest == IF days_rest = 0 THEN 3
                ELSE IF days_rest = 1 THEN 2
                ELSE IF days_rest = 2 THEN 1
                ELSE 0
        freq == IF games_in_7_days >= 4 THEN 3
                ELSE IF games_in_7_days >= 3 THEN 2
                ELSE 0
    IN Min(b2b + rest + freq, FiOne)

----------------------------------------------------------------------------
(* NBADataCollector.collect_team_rest_fatigue_data *)

LookBack == 10     \* range(max(0, i-10), i)
WindowDays == 7    \* days_ago <= 7

\* the truthy team names of all_games, in order of first appearance (the
\* iteration order of the dict team_schedules)
RECURSIVE TeamOrder(_)
TeamOrder(all_games) ==
    IF all_games = <<>> THEN <<>>
    ELSE LET front == TeamOrder(SubSeq(all_games, 1, Len(all_games) - 1))
             t == all_games[Len(all_games)].TEAM_NAME
         IN IF t = NoTeam \/ \E i \in 1..Len(front) : front[i] = t
            THEN front
            ELSE Append(front, t)

\* team_schedules after the grouping loop
Grouped(all_games) ==
    [t \in {all_games[i].TEAM_NAME : i \in 1..Len(all_games)} \ {NoTeam} |->
        SelectSeq(all_games, LAMBDA g : g.TEAM_NAME = t)]

\* a look-back loop over the five games before the game at index i
LookBackRange_five(i) == Max(1, i - 5)..(i - 1)

\* indices j of the look-back loop for the game at index i (from 1)
LookBackRange(i) == Max(1, i - LookBack)..(i - 1)

\* the body of the per-game try block raises
GameRaises(gs, i) ==
    LET game_date == gs[i].GAME_DATE
    IN \/ ConvRaises(game_date)
       \/ /\ i > 1
          /\ \/ ConvRaises(gs[i - 1].GAME_DATE)
             \/ SubRaises(game_date, gs[i - 1].GAME_DATE)
       \/ \E j \in LookBackRange(i) :
             \/ ConvRaises(gs[j].GAME_DATE)
             \/ SubRaises(game_date, gs[j].GAME_DATE)

\* days_rest with a first game that counts as rested
days_rest_first_rested(gs, i) ==
    IF i > 1 THEN SubDays(gs[i].GAME_DATE, gs[i - 1].GAME_DATE) - 1 ELSE 3

\* days_rest without the `- 1`
days_rest_gap(gs, i) ==
    IF i > 1 THEN SubDays(gs[i].GAME_DATE, gs[i - 1].GAME_DATE) ELSE 0

days_rest(gs, i) ==
    IF i > 1 THEN SubDays(gs[i].GAME_DATE, gs[i - 1].GAME_DATE) - 1 ELSE 0

\* is_back_to_back as `days_rest <= 0`
is_back_to_back_le(gs, i) ==
    IF i > 1 THEN days_rest(gs, i) <= 0 ELSE FALSE

is_back_to_back(gs, i) ==
    IF i > 1 THEN days_rest(gs, i) = 0 ELSE FALSE

\* the count over every earlier game of the list
games_in_last_7_days_season(gs, i) ==
    1 + Cardinality({j \in 1..(i - 1) :
                        SubDays(gs[i].GAME_DATE, gs[j].GAME_DATE) <= WindowDays})

games_in_last_7_days(gs, i) ==
    1 + Cardinality({j \in LookBackRange(i) :
                        SubDays(gs[i].GAME_DATE, gs[j].GAME_DATE) <= WindowDays})

\* game_date as stored in the record: None stays None
RecordDate(v) == IF IsNone(v) THEN NullVal ELSE Conv(v)

rest_record(team_name, gs, i, season) ==
    LET dr == days_rest(gs, i)
        b2b == is_back_to_back(gs, i)
        g7 == games_in_last_7_days(gs, i)
    IN [team_name |-> team_name,
        game_id |-> gs[i].GAME_ID,
        game_date |-> RecordDate(gs[i].GAME_DATE),
        season |-> season,
        days_rest |-> dr,
        is_back_to_back |-> b2b,
        games_in_last_7_days |-> g7,
        schedule_difficulty |-> calculate_schedule_difficulty(g7, dr),
        fatigue_index |-> calculate_fatigue_index(dr, g7, b2b)]

\* what the loop body does with the game at index i: <<>> when it raises and
\* the game is skipped, <<record>> when rest_data gets its record
ProcessGame(team_name, gs, i, season) ==
    IF GameRaises(gs, i) THEN <<>> ELSE <<rest_record(team_name, gs, i, season)>>

RECURSIVE Flatten(_)
Flatten(ss) == IF ss = <<>> THEN <<>> ELSE Head(ss) \o Flatten(Tail(ss))

\* the loop over team_schedules.items(), from the k-th team on; st holds the
\* locals so far.  A raising games.sort leaves the loop (aborted).
RECURSIVE AnalyzeTeams(_, _, _, _)
AnalyzeTeams(order, k, season, st) ==
    IF k > Len(order) THEN st
    ELSE LET t == order[k]
         IN IF SortRaises(st.team_schedules[t])
            THEN [st EXCEPT !.aborted = TRUE]
            ELSE Once(LAMBDA gs :
                    Once(LAMBDA out :
                        AnalyzeTeams(order, k + 1, season,
                            [aborted |-> FALSE,
                             team_schedules |-> [st.team_schedules EXCEPT ![t] = gs],
                             processed |-> st.processed @@ (t :> out),
                             rest_data |-> st.rest_data \o Flatten(out)]),
                        Tabulate(LAMBDA i : ProcessGame(t, gs, i, season), Len(gs))),
                    PySort(st.team_schedules[t]))

Analyze(all_games, season) ==
    AnalyzeTeams(TeamOrder(all_games), 1, season,
        [aborted |-> FALSE, team_schedules |-> Grouped(all_games),
         processed |-> <<>>, rest_data |-> <<>>])

\* `if rest_data: team_rest_fatigue.insert_many(rest_data, ordered=False)`
StoreRestData(coll, records) ==
    IF records # <<>> THEN InsertMany(coll, records) ELSE coll

\* a run that deletes the rows without a date from db.games
GamesAfterRun_cleanup(coll) ==
    [n \in {m \in BagToSet(coll) : ~IsNone(RowTable[m].GAME_DATE)} |-> coll[n]]

\* the run never writes db.games
GamesAfterRun(coll) == coll

\* the method from the list the query returns on
DeriveFrom(all_games, season) ==
    IF all_games = <<>>
    THEN /\ ret' = 0
         /\ team_schedules' = <<>>
         /\ processed' = <<>>
         /\ rest_data' = <<>>
         /\ UNCHANGED team_rest_fatigue
    ELSE \E st \in {Analyze(all_games, season)} :
            /\ team_schedules' = st.team_schedules
            /\ processed' = st.processed
            /\ rest_data' = st.rest_data
            /\ IF st.aborted
               THEN /\ ret' = 0
                    /\ UNCHANGED team_rest_fatigue
               ELSE /\ ret' = Len(st.rest_data)
                    /\ team_rest_fatigue' =
                           StoreRestData(team_rest_fatigue, st.rest_data)

collect_team_rest_fatigue_data(season) ==
    /\ runs' = runs + 1
    /\ last_call' = [op |-> "collect_team_rest_fatigue_data", season |-> season]
    /\ games' = GamesAfterRun(games)
    /\ UNCHANGED calc
    /\ UNCHANGED chem_vars
    /\ UNCHANGED aux_vars
    /\ UNCHANGED coll_vars
    /\ \E all_games \in FindSorted(season) : DeriveFrom(all_games, season)

----------------------------------------------------------------------------
(* Direct calls of the two score functions *)

\* arguments of a direct call
RestArgs == (0 - 8)..8
DensityArgs == (0 - 2)..12

NoCall == [fn |-> "none", days_rest |-> 0, games_in_7_days |-> 0,
           is_back_to_back |-> FALSE, done |-> FALSE, result |-> 0]

Calls == [fn : {"schedule_difficulty", "fatigue_index"}, days_rest : RestArgs,
          games_in_7_days : DensityArgs, is_back_to_back : BOOLEAN,
          done : {FALSE}, result : {0}]

CallScheduleDifficulty ==
    /\ calc.fn = "schedule_difficulty" /\ ~calc.done
    /\ calc' = [calc EXCEPT !.done = TRUE,
                  !.result = calculate_schedule_difficulty(calc.games_in_7_days,
                                                           calc.days_rest)]
    /\ UNCHANGED <<games, team_rest_fatigue, last_call, ret, team_schedules,
                   processed, rest_data, runs>>
    /\ UNCHANGED chem_vars
    /\ UNCHANGED aux_vars
    /\ UNCHANGED coll_vars

CallFatigueIndex ==
    /\ calc.fn = "fatigue_index" /\ ~calc.done
    /\ calc' = [calc EXCEPT !.done = TRUE,
                  !.result = calculate_fatigue_index(calc.days_rest,
                                 calc.games_in_7_days, calc.is_back_to_back)]
    /\ UNCHANGED <<games, team_rest_fatigue, last_call, ret, team_schedules,
                   processed, rest_data, runs>>
    /\ UNCHANGED chem_vars
    /\ UNCHANGED aux_vars
    /\ UNCHANGED coll_vars

----------------------------------------------------------------------------
(* float64 arithmetic of numpy and scikit-learn: a float is a sign, a      *)
(* 53-bit significand and a binary exponent; every operation rounds its    *)
(* exact result to nearest, ties to even.  Significands are natural        *)
(* numbers too wide for one integer, so they are kept as sequences of      *)
(* limbs, least significant limb first, without leading zero limbs.        *)
(* Overflow, subnormals, infinities and NaN are not modelled.              *)
(* Operands are bound to their values before an operation works on them.   *)

LimbBits == 15
Precision == 53

\* 2^n for n < LimbBits
Pow2(n) == <<1, 2, 4, 8, 16, 32, 64, 128, 256, 512, 1024, 2048, 4096, 8192, 16384>>[n + 1]

Base == 32768     \* 2^LimbBits

RECURSIVE BitLen(_)
\* number of binary digits of the natural number k
BitLen(k) == IF k = 0 THEN 0 ELSE 1 + BitLen(k \div 2)

RECURSIVE BigTrim(_)
BigTrim(a) ==
    IF a # <<>> /\ a[Len(a)] = 0 THEN BigTrim(SubSeq(a, 1, Len(a) - 1)) ELSE a

RECURSIVE BigFromInt(_)
BigFromInt(k) == IF k = 0 THEN <<>> ELSE <<k % Base>> \o BigFromInt(k \div Base)

BigBitLen(a) ==
    IF a = <<>> THEN 0 ELSE LimbBits * (Len(a) - 1) + BitLen(a[Len(a)])

BigIsOdd(a) == a # <<>> /\ a[1] % 2 = 1

RECURSIVE BigAddC(_, _, _)
\* a + b + carry
BigAddC(a, b, carry) ==
    IF a = <<>> /\ b = <<>> THEN BigFromInt(carry)
    ELSE LET x == (IF a = <<>> THEN 0 ELSE Head(a))
                  + (IF b = <<>> THEN 0 ELSE Head(b)) + carry
         IN <<x % Base>> \o BigAddC(IF a = <<>> THEN <<>> ELSE Tail(a),
                                    IF b = <<>> THEN <<>> ELSE Tail(b),
                                    x \div Base)

BigAdd(a, b) == BigAddC(a, b, 0)

RECURSIVE BigSubB(_, _, _)
\* a - b - borrow, for a >= b + borrow; leading zero limbs are left in
BigSubB(a, b, borrow) ==
    IF a = <<>> THEN <<>>
    ELSE LET x == Head(a) - (IF b = <<>> THEN 0 ELSE Head(b)) - borrow
         IN <<x % Base>> \o BigSubB(Tail(a),
                                    IF b = <<>> THEN <<>> ELSE Tail(b),
                                    IF x < 0 THEN 1 ELSE 0)

BigSub(a, b) == BigTrim(BigSubB(a, b, 0))

RECURSIVE BigLess(_, _)
BigLess(a, b) ==
    IF Len(a) # Len(b) THEN Len(a) < Len(b)
    ELSE IF a = <<>> THEN FALSE
    ELSE IF a[Len(a)] # b[Len(b)] THEN a[Len(a)] < b[Len(b)]
    ELSE BigLess(SubSeq(a, 1, Len(a) - 1), SubSeq(b, 1, Len(b) - 1))

RECURSIVE BigMulC(_, _, _)
\* a * k + carry, for a limb k
BigMulC(a, k, carry) ==
    IF a = <<>> THEN BigFromInt(carry)
    ELSE LET p == Head(a) * k + carry
         IN <<p % Base>> \o BigMulC(Tail(a), k, p \div Base)

BigMulSmall(a, k) == BigTrim(BigMulC(a, k, 0))

RECURSIVE BigMul(_, _)
BigMul(a, b) ==
    IF a = <<>> \/ b = <<>> THEN <<>>
    ELSE BigAdd(BigMulSmall(a, Head(b)),
                IF Tail(b) = <<>> THEN <<>> ELSE <<0>> \o BigMul(a, Tail(b)))

RECURSIVE BigDivStep(_, _, _, _, _)
\* long division of a by the limb k from limb i down, with the remainder
\* rem and the quotient limbs q of the limbs above i
BigDivStep(a, k, i, rem, q) ==
    IF i = 0 THEN [q |-> BigTrim(q), r |-> rem]
    ELSE BigDivStep(a, k, i - 1, (rem * Base + a[i]) % k,
                    <<(rem * Base + a[i]) \div k>> \o q)

\* quotient and remainder of a by the limb k
BigDivRem(a, k) == BigDivStep(a, k, Len(a), 0, <<>>)

\* a * 2^s
BigShl(a, s) ==
    IF a = <<>> THEN <<>>
    ELSE BigMulSmall([i \in 1..(s \div LimbBits) |-> 0] \o a, Pow2(s % LimbBits))

\* a \div 2^s, and whether a nonzero remainder was dropped
BigShr(a, s) ==
    LET n == s \div LimbBits
        low == SubSeq(a, 1, IF n < Len(a) THEN n ELSE Len(a))
        d == BigDivRem(SubSeq(a, n + 1, Len(a)), Pow2(s % LimbBits))
    IN [q |-> d.q, sticky |-> d.r # 0 \/ \E i \in 1..Len(low) : low[i] # 0]

FZero == [neg |-> FALSE, m |-> <<>>, e |-> 0]

\* the float nearest to (n + t) * 2^e, ties to even, where 0 < t < 1 if
\* sticky and t = 0 otherwise; sticky needs n to have more than Precision bits
Round(neg, n, e, sticky) ==
    LET len == BigBitLen(n)
    IN IF n = <<>> THEN FZero
       ELSE IF len <= Precision
       THEN [neg |-> neg, m |-> BigShl(n, Precision - len), e |-> e - (Precision - len)]
       ELSE Once(LAMBDA s1 :
                   Once(LAMBDA half :
                       Once(LAMBDA m1 :
                           IF BigBitLen(m1) > Precision
                           THEN [neg |-> neg, m |-> BigDivRem(m1, 2).q,
                                 e |-> e + (len - Precision) + 1]
                           ELSE [neg |-> neg, m |-> m1, e |-> e + (len - Precision)],
                           IF half.r = 1 /\ (sticky \/ s1.sticky \/ BigIsOdd(half.q))
                           THEN BigAdd(half.q, <<1>>) ELSE half.q),
                       BigDivRem(s1.q, 2)),
                 BigShr(n, len - Precision - 1))

Fl(neg, n, e, sticky) == Once(LAMBDA v : Round(neg, v, e, sticky), n)

\* float(k) of an integer k, exact
FFromInt(k) == Fl(k < 0, BigFromInt(IF k < 0 THEN 0 - k ELSE k), 0, FALSE)

FNeg(a) == IF a = FZero THEN a ELSE [a EXCEPT !.neg = ~a.neg]

AddExact(a, b) ==
    IF a = FZero THEN b
    ELSE IF b = FZero THEN a
    ELSE LET e0 == IF a.e < b.e THEN a.e ELSE b.e
             x == BigShl(a.m, a.e - e0)
             y == BigShl(b.m, b.e - e0)
         IN IF a.neg = b.neg THEN Fl(a.neg, BigAdd(x, y), e0, FALSE)
            ELSE IF x = y THEN FZero
            ELSE IF BigLess(x, y) THEN Fl(b.neg, BigSub(y, x), e0, FALSE)
            ELSE Fl(a.neg, BigSub(x, y), e0, FALSE)

\* a + b
FAdd(a, b) == Once(LAMBDA p : AddExact(p[1], p[2]), <<a, b>>)

\* a - b
FSub(a, b) == FAdd(a, FNeg(b))

MulExact(a, b) ==
    IF a = FZero \/ b = FZero THEN FZero
    ELSE Fl(a.neg # b.neg, BigMul(a.m, b.m), a.e + b.e, FALSE)

\* a * b
FMul(a, b) == Once(LAMBDA p : MulExact(p[1], p[2]), <<a, b>>)

DivGuard == 5   \* limbs of quotient beyond the significand

DivExact(a, k) ==
    IF a = FZero THEN FZero
    ELSE Once(LAMBDA d : Fl(a.neg, d.q, a.e - DivGuard * LimbBits, d.r # 0),
              BigDivRem(BigShl(a.m, DivGuard * LimbBits), k))

\* a / k for a float a and a whole number k >= 1 that fits a limb
FDivInt(a, k) == Once(LAMBDA p : DivExact(p[1], p[2]), <<a, k>>)

\* a < b
FLess(a, b) ==
    IF a = FZero THEN b # FZero /\ ~b.neg
    ELSE IF b = FZero THEN a.neg
    ELSE IF a.neg # b.neg THEN a.neg
    ELSE LET lt == a.e < b.e \/ (a.e = b.e /\ BigLess(a.m, b.m))
             gt == b.e < a.e \/ (a.e = b.e /\ BigLess(b.m, a.m))
         IN IF a.neg THEN gt ELSE lt

FLeq(a, b) == a = b \/ FLess(a, b)

----------------------------------------------------------------------------
(* Chemistry Index: _calculate_chemistry_index over one batch of teams *)

\* no batch at hand
NoChemistry ==
    /\ chemistry_records = <<>>
    /\ prev_records = <<>>
    /\ chem_phase = "none"

\* metrics = ['screen_assists', 'secondary_assists', 'contested_shots', 'deflections']
metrics == <<"screen_assists", "secondary_assists", "contested_shots", "deflections">>
MetricNames == {metrics[k] : k \in 1..Len(metrics)}

\* raw metric values: whole numbers, which float() represents exactly
RawValues == {0, 7, 11}

\* team records as the callers build them, reduced to the four metrics: all
\* four metrics alike, one metric high and the others 0, or some metrics absent
TeamRecords ==
    {[k \in MetricNames |-> v] : v \in RawValues}
      \cup {[k \in MetricNames |-> IF k = h THEN 11 ELSE 0] : h \in MetricNames}
      \cup {[k \in S |-> 11] :
               S \in {{}, MetricNames \ {"deflections"}}}

MaxTeams == 2     \* teams in the batch of a first call

Batches == UNION {[1..n -> TeamRecords] : n \in 0..MaxTeams}

\* record.get(metric, 0)
Get(record, metric) == IF metric \in DOMAIN record THEN record[metric] ELSE 0

\* metric_matrix: one row per record, one column per metric
metric_matrix(records) ==
    Tabulate(LAMBDA i : Tabulate(LAMBDA k : Get(records[i], metrics[k]), Len(metrics)),
             Len(records))

Column(matrix, k) == {matrix[i][k] : i \in 1..Len(matrix)}

\* the last team's value taken for the column's minimum
data_min_last(matrix, k) == matrix[Len(matrix)][k]

data_min(matrix, k) ==
    CHOOSE v \in Column(matrix, k) : \A w \in Column(matrix, k) : v <= w

data_max(matrix, k) ==
    CHOOSE v \in Column(matrix, k) : \A w \in Column(matrix, k) : v >= w

\* MinMaxScaler(feature_range=(0, 100))
FeatureMin == 0
FeatureMax == 100

\* a constant column is scaled as if its range were 1
handle_zeros_in_scale(range) == IF range = 0 THEN 1 ELSE range

\* scale_ = (feature_range[1] - feature_range[0]) / handle_zeros(data_range)
scale_(matrix, k) ==
    FDivInt(FFromInt(FeatureMax - FeatureMin),
            handle_zeros_in_scale(data_max(matrix, k) - data_min(matrix, k)))

\* min_ without the factor scale_
min_unscaled(matrix, scale, k) ==
    FSub(FFromInt(FeatureMin), FFromInt(data_min(matrix, k)))

\* min_ = feature_range[0] - data_min * scale_
min_(matrix, scale, k) ==
    FSub(FFromInt(FeatureMin), FMul(FFromInt(data_min(matrix, k)), scale[k]))

\* fit: the scale_ and min_ of every column
fit(matrix) ==
    Once(LAMBDA scale :
            [scale_ |-> scale,
             min_ |-> Tabulate(LAMBDA k : min_(matrix, scale, k), Len(metrics))],
         Tabulate(LAMBDA k : scale_(matrix, k), Len(metrics)))

\* transform: X *= scale_; X += min_
transform(scaler, matrix) ==
    Tabulate(LAMBDA i :
                Tabulate(LAMBDA k : FAdd(FMul(FFromInt(matrix[i][k]), scaler.scale_[k]),
                                         scaler.min_[k]),
                         Len(metrics)),
             Len(matrix))

fit_transform(matrix) == Once(LAMBDA scaler : transform(scaler, matrix), fit(matrix))

RECURSIVE FSum(_)
\* the sum of a row, added left to right from 0.0
FSum(row) ==
    IF row = <<>> THEN FZero
    ELSE FAdd(FSum(SubSeq(row, 1, Len(row) - 1)), row[Len(row)])

\* np.mean(scaled_metrics, axis=1)
chemistry_scores(scaled_metrics) ==
    Tabulate(LAMBDA i : FDivInt(FSum(scaled_metrics[i]), Len(scaled_metrics[i])),
             Len(scaled_metrics))

ScaledName(metric) ==
    CASE metric = "screen_assists" -> "screen_assists_scaled"
      [] metric = "secondary_assists" -> "secondary_assists_scaled"
      [] metric = "contested_shots" -> "contested_shots_scaled"
      [] metric = "deflections" -> "deflections_scaled"

DerivedFields ==
    {"chemistry_raw", "chemistry_index"} \cup {ScaledName(m) : m \in MetricNames}

\* the record after a Step 4 that normalises chemistry_index to 100
WithChemistry_normalised(record, scaled_row, score) ==
    [f \in DOMAIN record \cup DerivedFields |->
        IF f = "chemistry_raw" THEN score
        ELSE IF f = "chemistry_index" THEN FFromInt(100)
        ELSE IF \E k \in 1..Len(metrics) : f = ScaledName(metrics[k])
             THEN scaled_row[CHOOSE k \in 1..Len(metrics) : f = ScaledName(metrics[k])]
             ELSE record[f]]

\* the record after Step 4 wrote its derived fields
WithChemistry(record, scaled_row, score) ==
    [f \in DOMAIN record \cup DerivedFields |->
        IF f \in {"chemistry_raw", "chemistry_index"} THEN score
        ELSE IF \E k \in 1..Len(metrics) : f = ScaledName(metrics[k])
             THEN scaled_row[CHOOSE k \in 1..Len(metrics) : f = ScaledName(metrics[k])]
             ELSE record[f]]

\* record[metric] in place of record.get(metric, 0): an absent metric raises
chemistry_raises_on_absent(chemistry_recs) ==
    \/ chemistry_recs = <<>>
    \/ \E i \in 1..Len(chemistry_recs) : ~(MetricNames \subseteq DOMAIN chemistry_recs[i])

\* the body of the try raises: np.array([]) is one-dimensional and
\* fit_transform rejects it
chemistry_raises(chemistry_recs) == chemistry_recs = <<>>

\* the values of the moving_window argument: the default and another
MovingWindows == {1, 8}

\* the list _calculate_chemistry_index returns; window is its moving_window
\* argument, which the body never reads
calculate_chemistry_index(chemistry_recs, window) ==
    IF chemistry_raises(chemistry_recs) THEN chemistry_recs
    ELSE Once(LAMBDA scaled_metrics :
                 Once(LAMBDA scores :
                         [i \in 1..Len(chemistry_recs) |->
                             WithChemistry(chemistry_recs[i], scaled_metrics[i], scores[i])],
                      chemistry_scores(scaled_metrics)),
              Once(LAMBDA matrix : fit_transform(matrix), metric_matrix(chemistry_recs)))

\* a first call on a batch
CalculateChemistryIndex ==
    /\ chem_phase = "input"
    /\ \E window \in MovingWindows :
          /\ moving_window' = window
          /\ chemistry_records' = calculate_chemistry_index(chemistry_records, window)
    /\ chem_phase' = "calculated"
    /\ UNCHANGED prev_records
    /\ UNCHANGED rest_vars
    /\ UNCHANGED <<season_games, hybrid, conn, dataset, injury>>
    /\ UNCHANGED coll_vars

\* the cohorts the first team of a batch is recomputed in: the batch without
\* its last team, or with one more team
Recohorts(records) ==
    {SubSeq(records, 1, Len(records) - 1) : n \in {Len(records)} \ {0, 1}}
      \cup {Append(records, t) : t \in IF records # <<>> THEN TeamRecords ELSE {}}

\* a second call, on the records the first returned regrouped
RecalculateInCohort ==
    /\ chem_phase = "calculated"
    /\ \E cohort \in Recohorts(chemistry_records) :
          chemistry_records' = calculate_chemistry_index(cohort, moving_window)
    /\ prev_records' = chemistry_records
    /\ chem_phase' = "recalculated"
    /\ UNCHANGED rest_vars
    /\ UNCHANGED aux_vars
    /\ UNCHANGED coll_vars

----------------------------------------------------------------------------
(* Collection of season games and reads of db.games *)

\* no collector or database call of this section made yet
NoCollection ==
    /\ request = [op |-> "none"]
    /\ events = <<>>

\* an optional argument: None, or a value
None == <<>>
Some(v) == <<v>>
\* `if arg:` on an optional number and on an optional string
TruthyInt(arg) == arg # None /\ arg[1] # 0
TruthyStr(arg) == arg # None /\ arg[1] # ""

\* what a function leaves behind when it raises
Raised == [raised |-> TRUE]

\* LeagueGameFinder(...).get_data_frames()[0]: the constructor or the fetch
\* raises, or a DataFrame of game rows arrives whose GAME_DATE are strings
ApiBatchSizes == {0, 1}
ApiRows == [TEAM_NAME : TeamNames, GAME_ID : {1}, GAME_DATE : DateStrings]
ApiResponses ==
    [raises : {TRUE}, rows : {<<>>}]
      \cup [raises : {FALSE}, rows : UNION {[1..n -> ApiRows] : n \in ApiBatchSizes}]

\* pd.to_datetime(games_df['GAME_DATE']) raises when one cell is no date
column_to_datetime_raises(rows) ==
    \E i \in 1..Len(rows) : to_datetime_raises(rows[i].GAME_DATE)

\* games_df with SEASON set and GAME_DATE converted
season_frame(rows, season) ==
    [rows |-> [i \in 1..Len(rows) |->
                  [TEAM_NAME |-> rows[i].TEAM_NAME, GAME_ID |-> rows[i].GAME_ID,
                   SEASON |-> season, GAME_DATE |-> to_datetime(rows[i].GAME_DATE)]],
     has_date |-> TRUE]

\* the try block gets as far as self.db.insert_games(games_df)
reaches_insert(response) ==
    /\ ~response.raises
    /\ response.rows # <<>>
    /\ ~column_to_datetime_raises(response.rows)

\* what one call meets: the API's response, and whether insert_many fails
\* because the server cannot be reached (nothing is inserted then)
CallOutcomes ==
    {o \in [response : ApiResponses, db_down : BOOLEAN] :
        o.db_down => reaches_insert(o.response)}

RECURSIVE TableOf(_, _)
\* the function x |-> F(x) on S, every value worked out once
TableOf(F(_), S) ==
    IF S = {} THEN <<>>
    ELSE LET x == CHOOSE y \in S : TRUE
         IN (x :> F(x)) @@ TableOf(F, S \ {x})

\* the documents insert_games makes of the frame of a call that gets as far
\* as insert_games, for every season and outcome of the model
SeasonDocs ==
    TableOf(LAMBDA c :
                IF reaches_insert(c[2].response)
                THEN RowNumbers(games_list(season_frame(c[2].response.rows, c[1])))
                ELSE <<>>,
            Seasons \X CallOutcomes)

\* the number of rows fetched returned whatever became of them
collect_season_games_fetched(coll, season, o) ==
    IF SeasonDocs[season, o] = <<>> \/ o.db_down
    THEN [games |-> coll, ret |-> Len(o.response.rows)]
    ELSE [games |-> InsertMany(coll, SeasonDocs[season, o]),
          ret |-> Len(o.response.rows)]

\* collect_season_games: db.games after the call and the value returned; 0
\* is returned when the API raises, the frame is empty, a date does not
\* convert or insert_games raises
collect_season_games(coll, season, o) ==
    IF SeasonDocs[season, o] = <<>> \/ o.db_down
    THEN [games |-> coll, ret |-> 0]
    ELSE [games |-> InsertMany(coll, SeasonDocs[season, o]),
          ret |-> Len(SeasonDocs[season, o])]

CollectSeasonGames ==
    \E season \in Seasons, o \in CallOutcomes :
        LET r == collect_season_games(games, season, o)
        IN /\ BagCardinality(r.games) <= MaxGames
           /\ games' = r.games
           /\ ret' = r.ret
           /\ last_call' = [op |-> "collect_season_games", season |-> season]
           /\ request' = [op |-> "collect_season_games", season |-> season,
                          response |-> o.response, db_down |-> o.db_down]
           /\ events' = <<>>
           /\ UNCHANGED <<team_rest_fatigue, team_schedules, processed, rest_data,
                          runs, calc>>
           /\ UNCHANGED chem_vars
           /\ UNCHANGED aux_vars

\* the calls collect_multiple_seasons makes, as its caller's mocks see them
CallEvent(season, collected) ==
    [ev |-> "collect_season_games", season |-> season, returned |-> collected]
PauseEvent == [ev |-> "_rate_limit", season |-> "", returned |-> 0]

\* a pause after every season, the last one too
pause_after_every(i, seasons) == TRUE

\* `if i < len(seasons) - 1`, for the season at position i counted from 1
pause_after(i, seasons) == i < Len(seasons)

\* results[season] = collected
SetItem(results, season, collected) ==
    [s \in DOMAIN results \cup {season} |->
        IF s = season THEN collected ELSE results[s]]

\* one pass of the for loop, for the season at position i whose call came
\* back as r; st: db.games, results and the calls made so far
SeasonsStep(seasons, i, st, r) ==
    [games |-> r.games,
     results |-> SetItem(st.results, seasons[i], r.ret),
     events |-> Append(st.events, CallEvent(seasons[i], r.ret))
                   \o (IF pause_after(i, seasons) THEN <<PauseEvent>> ELSE <<>>)]

RECURSIVE SeasonsLoop(_, _, _, _)
\* the for loop from the season at position i on
SeasonsLoop(seasons, outcomes, i, st) ==
    IF i > Len(seasons) THEN st
    ELSE Once(LAMBDA next : SeasonsLoop(seasons, outcomes, i + 1, next),
              Once(LAMBDA r : SeasonsStep(seasons, i, st, r),
                   collect_season_games(st.games, seasons[i], outcomes[i])))

collect_multiple_seasons(coll, seasons, outcomes) ==
    SeasonsLoop(seasons, outcomes, 1, [games |-> coll, results |-> <<>>, events |-> <<>>])

MaxSeasons == 2     \* seasons in the list of collect_multiple_seasons
\* games of the one team of a long schedule
MaxSchedule == 12
SeasonLists == UNION {[1..n -> Seasons] : n \in 0..MaxSeasons}

\* collect_multiple_seasons keeps nothing of a call but the count it returned:
\* per call, one outcome that returns 0 and one that stores a row
LoopOutcomes ==
    {o \in CallOutcomes :
        /\ ~o.db_down
        /\ \/ o.response.raises
           \/ /\ reaches_insert(o.response)
              /\ \A i \in 1..Len(o.response.rows) : o.response.rows[i].TEAM_NAME = "A"}

CollectMultipleSeasons ==
    \E seasons \in SeasonLists :
      \E outcomes \in [1..Len(seasons) -> LoopOutcomes] :
        LET st == collect_multiple_seasons(games, seasons, outcomes)
        IN /\ BagCardinality(st.games) <= MaxGames
           /\ games' = st.games
           /\ ret' = st.results
           /\ events' = st.events
           /\ last_call' = [op |-> "collect_multiple_seasons", season |-> ""]
           /\ request' = [op |-> "collect_multiple_seasons", seasons |-> seasons]
           /\ UNCHANGED <<team_rest_fatigue, team_schedules, processed, rest_data,
                          runs, calc>>
           /\ UNCHANGED chem_vars
           /\ UNCHANGED aux_vars

\* the TEAM_ID column of a row: the id of the team of that name
TeamId(team_name) ==
    CASE team_name = "A" -> 1610612747
      [] team_name = "B" -> 1610612738
      [] OTHER -> 0

\* the arguments of get_games; dates are datetimes
GetGamesArgs ==
    [team_id : {None, Some(0), Some(TeamId("A")), Some(999999)},
     season : {None, Some("2023-24"), Some("1999-00")},
     start_date : {None, Some(2)},
     end_date : {None, Some(1)},
     limit : {None, Some(0), Some(1), Some(2)}]

NoArgs == [team_id |-> None, season |-> None, start_date |-> None,
           end_date |-> None, limit |-> None]

\* the query get_games builds, as the set of conditions a row has to meet;
\* $gte and $lte with a datetime match datetime values only
QueryMatches(row, a) ==
    /\ TruthyInt(a.team_id) => TeamId(row.TEAM_NAME) = a.team_id[1]
    /\ TruthyStr(a.season) => row.SEASON = a.season[1]
    /\ a.start_date # None =>
          row.GAME_DATE.k = "dt" /\ row.GAME_DATE.d >= a.start_date[1]
    /\ a.end_date # None =>
          row.GAME_DATE.k = "dt" /\ row.GAME_DATE.d <= a.end_date[1]

\* db.games.find(query): the matching rows of the collection
Find(coll, a) ==
    LET S == {n \in BagToSet(coll) : QueryMatches(RowTable[n], a)}
    IN [n \in S |-> coll[n]]

RECURSIVE Take(_, _)
\* the bags of k documents taken from bag B
Take(B, k) ==
    IF k = 0 THEN {EmptyBag}
    ELSE UNION {{SetToBag({x}) (+) b : b \in Take(B (-) SetToBag({x}), k - 1)} :
                   x \in BagToSet(B)}

\* list(cursor) after `if limit: cursor = cursor.limit(limit)`: with a limit,
\* the first rows in the collection's natural order, which is any order here
Limited(found, a) ==
    IF TruthyInt(a.limit) /\ a.limit[1] < BagCardinality(found)
    THEN Take(found, a.limit[1])
    ELSE {found}

\* the keys of a stored document
DocKeys(n) ==
    {"_id", "TEAM_ID", "TEAM_NAME", "GAME_ID", "SEASON", "inserted_at"}
      \cup (IF RowTable[n].GAME_DATE.k = "missing" THEN {} ELSE {"GAME_DATE"})

\* pd.DataFrame()
EmptyDataFrame == [rows |-> EmptyBag, columns |-> {}]

\* pd.DataFrame(games_list) without the _id column
ToDataFrame(games_list_) ==
    IF games_list_ = EmptyBag THEN EmptyDataFrame
    ELSE [rows |-> games_list_,
          columns |-> UNION {DocKeys(n) : n \in BagToSet(games_list_)} \ {"_id"}]

\* the values get_games can return; it re-raises when the read fails
get_games(coll, a, read_fails) ==
    IF read_fails THEN {Raised}
    ELSE {ToDataFrame(l) : l \in Limited(Find(coll, a), a)}

\* a read leaves db.games as it found it: one read per behaviour
GetGames ==
    \E a \in GetGamesArgs, read_fails \in BOOLEAN :
        /\ request.op = "none"
        /\ ret' \in get_games(games, a, read_fails)
        /\ last_call' = [op |-> "get_games", season |-> ""]
        /\ request' = [op |-> "get_games", args |-> a, read_fails |-> read_fails]
        /\ events' = <<>>
        /\ UNCHANGED <<games, team_rest_fatigue, team_schedules, processed,
                       rest_data, runs, calc>>
        /\ UNCHANGED chem_vars
        /\ UNCHANGED aux_vars

\* sorted(all_games['SEASON'].unique().tolist())
SortedSeasons(S) ==
    CHOOSE l \in [1..Cardinality(S) -> S] :
        \A i \in 1..(Cardinality(S) - 1) : StrLess(l[i], l[i + 1])

\* the rows of a DataFrame
FrameRows(df) == {RowTable[n] : n \in BagToSet(df.rows)}

\* all_games['GAME_DATE'].min() and .max(); the rows a collection run stores
\* all hold datetimes
DateMin(df) ==
    CHOOSE v \in {r.GAME_DATE : r \in FrameRows(df)} :
        \A r \in FrameRows(df) : v.d <= r.GAME_DATE.d
DateMax(df) ==
    CHOOSE v \in {r.GAME_DATE : r \in FrameRows(df)} :
        \A r \in FrameRows(df) : v.d >= r.GAME_DATE.d

\* get_collection_stats: the dict returned; {} when the read raises
get_collection_stats(coll, read_fails) ==
    LET all_games == CHOOSE df \in get_games(coll, NoArgs, read_fails) : TRUE
    IN IF all_games = Raised THEN <<>>
       ELSE IF all_games.rows = EmptyBag
       THEN [total_games |-> 0, seasons |-> <<>>, teams |-> <<>>,
             date_range |-> None]
       ELSE [total_games |-> BagCardinality(all_games.rows),
             seasons |-> SortedSeasons({r.SEASON : r \in FrameRows(all_games)}),
             teams |-> Cardinality({TeamId(r.TEAM_NAME) : r \in FrameRows(all_games)}),
             date_range |-> [earliest |-> DateMin(all_games),
                             latest |-> DateMax(all_games)]]

GetCollectionStats ==
    \E read_fails \in BOOLEAN :
        /\ request.op = "none"
        /\ ret' = get_collection_stats(games, read_fails)
        /\ last_call' = [op |-> "get_collection_stats", season |-> ""]
        /\ request' = [op |-> "get_collection_stats", read_fails |-> read_fails]
        /\ events' = <<>>
        /\ UNCHANGED <<games, team_rest_fatigue, team_schedules, processed,
                       rest_data, runs, calc>>
        /\ UNCHANGED chem_vars
        /\ UNCHANGED aux_vars

\* the games get_team_stats finds: TEAM_ID, SEASON_TYPE and, when season is
\* truthy, SEASON
TeamStatsGames(coll, team_id, season, season_type) ==
    LET S == {n \in BagToSet(coll) :
                 /\ "SEASON_TYPE" \in DOMAIN RowTable[n]
                 /\ RowTable[n].SEASON_TYPE = season_type
                 /\ TeamId(RowTable[n].TEAM_NAME) = team_id
                 /\ TruthyStr(season) => RowTable[n].SEASON = season[1]}
    IN [n \in S |-> coll[n]]

\* sum(game.get('PTS', 0) for game in games) raises on a PTS that is None
SumRaises(found) == \E n \in BagToSet(found) : RowTable[n].PTS = None

\* sum(1 for game in games if game.get('WL') == 'W')
Wins(found) ==
    LET S == {n \in BagToSet(found) : RowTable[n].WL = "W"}
    IN BagCardinality([n \in S |-> found[n]])

\* get_team_stats: the dict returned; {} when nothing matches and when the
\* try block raises
get_team_stats(coll, team_id, season, season_type, read_fails) ==
    LET found == TeamStatsGames(coll, team_id, season, season_type)
    IN IF read_fails \/ found = EmptyBag \/ SumRaises(found)
       THEN <<>>
       ELSE [team_id |-> team_id, season |-> season,
             total_games |-> BagCardinality(found),
             wins |-> Wins(found),
             losses |-> BagCardinality(found) - Wins(found),
             win_percentage |-> FDivInt(FFromInt(Wins(found)), BagCardinality(found))]

GetTeamStats ==
    \E team_id \in {TeamId("A"), 999999},
       season \in {None, Some("2023-24"), Some("1999-00")},
       read_fails \in BOOLEAN :
        /\ request.op = "none"
        /\ ret' = get_team_stats(games, team_id, season, "Regular Season", read_fails)
        /\ last_call' = [op |-> "get_team_stats", season |-> ""]
        /\ request' = [op |-> "get_team_stats", team_id |-> team_id, season |-> season,
                       season_type |-> "Regular Season", read_fails |-> read_fails]
        /\ events' = <<>>
        /\ UNCHANGED <<games, team_rest_fatigue, team_schedules, processed,
                       rest_data, runs, calc>>
        /\ UNCHANGED chem_vars
        /\ UNCHANGED aux_vars

----------------------------------------------------------------------------
(* HybridNBACollector.calculate_team_chemistry_index over the hustle rows of *)
(* one season                                                              *)

\* column_mappings, in the order of the dict
column_mappings ==
    <<[metric |-> "screen_assists",
       cols |-> <<"SCREEN_ASSISTS", "Screen Assists", "SCREEN_AST">>],
      [metric |-> "deflections",
       cols |-> <<"DEFLECTIONS", "Deflections", "DEF">>],
      [metric |-> "contested_shots",
       cols |-> <<"CONTESTED_SHOTS", "Contested Shots", "CONTESTED_2PT", "CONTESTED_3PT">>],
      [metric |-> "secondary_assists",
       cols |-> <<"SECONDARY_ASSISTS", "Secondary Assists", "SECONDARY_AST">>]>>

\* the first of possible_cols among the columns of the frame, as a list of at
\* most one column
FirstColumn(possible_cols, columns) ==
    LET found == SelectSeq(possible_cols, LAMBDA col : col \in columns)
    IN IF found = <<>> THEN <<>> ELSE <<found[1]>>

\* chemistry_metrics after the mapping loop: the metrics with a column, each
\* with the column it reads
chemistry_metrics(columns) ==
    LET all == [k \in 1..Len(column_mappings) |->
                   [metric |-> column_mappings[k].metric,
                    col |-> FirstColumn(column_mappings[k].cols, columns)]]
    IN SelectSeq(all, LAMBDA m : m.col # <<>>)

RECURSIVE SumValues(_, _)
\* sum(metric_values.values()) of a row, over whole numbers
SumValues(row, found) ==
    IF found = <<>> THEN 0
    ELSE row[Head(found).col[1]] + SumValues(row, Tail(found))

\* the record made of the row at index i
chemistry_record(hustle, i, found, season) ==
    [team |-> i,
     season |-> season,
     chemistry_score |-> FDivInt(FFromInt(SumValues(hustle[i], found)), Len(found)),
     metrics_used |-> [k \in 1..Len(found) |-> found[k].metric]]

\* the columns of the DataFrame made of the rows
FrameColumns(hustle) == UNION {DOMAIN hustle[i] : i \in 1..Len(hustle)}

\* the call: what it returns and team_chemistry_index after it.  db_fails: the
\* find or the insert_many raises.
calculate_team_chemistry_index(coll, hustle, season, db_fails) ==
    IF db_fails \/ hustle = <<>> THEN [ret |-> 0, team_chemistry_index |-> coll]
    ELSE LET found == chemistry_metrics(FrameColumns(hustle))
         IN IF Len(found) < 2 THEN [ret |-> 0, team_chemistry_index |-> coll]
            ELSE LET chemistry_recs ==
                         [i \in 1..Len(hustle) |->
                             chemistry_record(hustle, i, found, season)]
                 IN [ret |-> Len(chemistry_recs),
                     team_chemistry_index |-> coll \o chemistry_recs]

\* the columns a hustle frame of the model can have, and the values in them
HustleColumns ==
    {"SCREEN_ASSISTS", "SCREEN_AST", "DEFLECTIONS", "CONTESTED_SHOTS",
     "SECONDARY_ASSISTS"}
HustleValues == {0, 40, 300}

\* the rows of a frame with the given columns: every metric alike, or
\* deflections alone high
HustleRowsOf(columns) ==
    {[c \in columns |-> v] : v \in HustleValues}
      \cup {[c \in columns |-> IF c = "DEFLECTIONS" THEN 300 ELSE 0]}

HustleFrames ==
    UNION {[1..n -> HustleRowsOf(columns)] :
              n \in 0..MaxTeams, columns \in SUBSET HustleColumns}

CalculateTeamChemistryIndex ==
    /\ hybrid.phase = "input"
    /\ \E db_fails \in BOOLEAN :
          LET out == calculate_team_chemistry_index(
                         hybrid.team_chemistry_index, hybrid.hustle, "2024-25", db_fails)
          IN hybrid' = [phase |-> "calculated",
                        hustle |-> hybrid.hustle,
                        db_fails |-> db_fails,
                        ret |-> out.ret,
                        team_chemistry_index |-> out.team_chemistry_index]
    /\ UNCHANGED rest_vars
    /\ UNCHANGED chem_vars
    /\ UNCHANGED coll_vars
    /\ UNCHANGED <<season_games, moving_window, conn, dataset, injury>>

----------------------------------------------------------------------------
(* NBADatabase.connect_with_retry *)

\* what one self.connect() does: it succeeds, or it logs and re-raises the
\* error of the client
ConnectErrors == {"ServerSelectionTimeoutError", "ConnectionFailure", "Exception"}
ConnectOutcomes == {"ok"} \cup ConnectErrors

\* the loop `for attempt in range(max_retries)` from attempt on (from 0);
\* outcomes[attempt + 1] is what self.connect() does in that attempt, log the
\* connects and sleeps so far
RECURSIVE RetryLoop(_, _, _, _)
RetryLoop(max_retries, outcomes, attempt, log) ==
    IF attempt >= max_retries
    THEN [result |-> "returned", error |-> "", connected |-> FALSE, log |-> log]
    ELSE LET outcome == outcomes[attempt + 1]
             tried == Append(log, [e |-> "connect", attempt |-> attempt,
                                   outcome |-> outcome, seconds |-> 0])
         IN IF outcome = "ok"
            THEN [result |-> "returned", error |-> "", connected |-> TRUE, log |-> tried]
            ELSE IF attempt = max_retries - 1
                 THEN [result |-> "raised", error |-> outcome, connected |-> FALSE,
                       log |-> tried]
                 ELSE RetryLoop(max_retries, outcomes, attempt + 1,
                          Append(tried, [e |-> "sleep", attempt |-> attempt,
                                         outcome |-> "", seconds |-> Pow2(attempt)]))

connect_with_retry(max_retries, outcomes) == RetryLoop(max_retries, outcomes, 0, <<>>)

ConnectWithRetry ==
    /\ conn.phase = "idle"
    /\ \E max_retries \in 0..MaxRetries :
          \E outcomes \in [1..max_retries -> ConnectOutcomes] :
              LET out == connect_with_retry(max_retries, outcomes)
              IN conn' = [phase |-> "called", max_retries |-> max_retries,
                          result |-> out.result, error |-> out.error,
                          connected |-> out.connected, log |-> out.log]
    /\ UNCHANGED rest_vars
    /\ UNCHANGED chem_vars
    /\ UNCHANGED coll_vars
    /\ UNCHANGED <<season_games, moving_window, hybrid, dataset, injury>>

----------------------------------------------------------------------------
(* DatasetCollector.collect_complete_dataset (scripts/collect_first_dataset) *)

\* the phases by number: the name each puts into phases_completed
PhaseNames ==
    <<"Basic Games", "Advanced Stats", "Team Standings", "Injury/Availability",
      "Rest/Fatigue", "Chemistry/Hybrid", "Validation">>

\* what a collector call of a phase does: it raises, or it returns a count
PhaseCounts == {0, 2}
Raises == <<>>
Returns(count) == <<count>>
CallResults == {Raises} \cup {Returns(count) : count \in PhaseCounts}

\* the outcomes of the calls of the phases: Phase 1 makes two calls, the
\* second only after the first returned; Phases 6 and 7 return no count
PhaseOutcomes(k) ==
    IF k = 1
    THEN {[regular |-> Raises, playoffs |-> Raises]}
           \cup [regular : CallResults \ {Raises}, playoffs : CallResults]
    ELSE IF k <= 5 THEN CallResults
    ELSE {Raises, Returns(0)}

\* the try block of phase k raises
PhaseRaises(k, outcome) ==
    IF k = 1 THEN outcome.regular = Raises \/ outcome.playoffs = Raises
    ELSE outcome = Raises

\* what phase k adds to total_records when its try block runs through
PhaseRecords(k, outcome) ==
    IF k = 1 THEN outcome.regular[1] + outcome.playoffs[1]
    ELSE IF k <= 5 THEN outcome[1]
    ELSE 0

\* a phase that appends to phases_completed before the call that raises
run_phase_append_first(summary, k, outcome) ==
    IF PhaseRaises(k, outcome)
    THEN [summary EXCEPT
             !.attempted = Append(@, k),
             !.phases_completed = Append(@, [phase |-> PhaseNames[k], records |-> 0]),
             !.errors = Append(@, k)]
    ELSE [summary EXCEPT
             !.attempted = Append(@, k),
             !.phases_completed =
                 Append(@, [phase |-> PhaseNames[k], records |-> PhaseRecords(k, outcome)]),
             !.total_records = @ + PhaseRecords(k, outcome)]

\* _phase_k: collection_summary after it; attempted lists the phases called
run_phase(summary, k, outcome) ==
    IF PhaseRaises(k, outcome)
    THEN [summary EXCEPT
             !.attempted = Append(@, k),
             !.errors = Append(@, k)]
    ELSE [summary EXCEPT
             !.attempted = Append(@, k),
             !.phases_completed =
                 Append(@, [phase |-> PhaseNames[k], records |-> PhaseRecords(k, outcome)]),
             !.total_records = @ + PhaseRecords(k, outcome)]

RECURSIVE RunPhases(_, _, _)
\* the seven calls of collect_complete_dataset from phase k on
RunPhases(summary, k, outcomes) ==
    IF k > Len(PhaseNames) THEN summary
    ELSE RunPhases(run_phase(summary, k, outcomes[k]), k + 1, outcomes)

\* collection_summary as __init__ leaves it
NewSummary ==
    [phases_completed |-> <<>>, total_records |-> 0, errors |-> <<>>,
     attempted |-> <<>>]

collect_complete_dataset(outcomes) == RunPhases(NewSummary, 1, outcomes)

CollectCompleteDataset ==
    /\ dataset.phase = "idle"
    /\ \E o1 \in PhaseOutcomes(1), o2 \in PhaseOutcomes(2), o3 \in PhaseOutcomes(3),
          o4 \in PhaseOutcomes(4), o5 \in PhaseOutcomes(5), o6 \in PhaseOutcomes(6),
          o7 \in PhaseOutcomes(7) :
          LET outcomes == <<o1, o2, o3, o4, o5, o6, o7>>
          IN dataset' = [phase |-> "collected", outcomes |-> outcomes,
                         collection_summary |-> collect_complete_dataset(outcomes)]
    /\ UNCHANGED rest_vars
    /\ UNCHANGED chem_vars
    /\ UNCHANGED coll_vars
    /\ UNCHANGED <<season_games, moving_window, hybrid, conn, injury>>

----------------------------------------------------------------------------
(* NBADataCollector.collect_injury_reports, _estimate_injury_status *)

\* a season's total of team games used in place of the player's own rows
total_team_games_season(games_df) == 82

\* len(games_df.groupby('GAME_ID'))
total_team_games(games_df) ==
    Cardinality({games_df[i].GAME_ID : i \in 1..Len(games_df)})

\* games_df.head(10)
RecentGames == 10
recent_games_df(games_df) == SubSeq(games_df, 1, Min(RecentGames, Len(games_df)))

RECURSIVE SumMin(_)
\* the sum of the MIN column, over whole numbers
SumMin(rows) == IF rows = <<>> THEN 0 ELSE Head(rows).MIN + SumMin(Tail(rows))

\* recent_games_df['MIN'].mean() of a frame with rows
avg_minutes(games_df) ==
    FDivInt(FFromInt(SumMin(recent_games_df(games_df))), Len(recent_games_df(games_df)))

\* the literals 0.7 and 0.85, and 20 and 15
Rate70 == FDivInt(FFromInt(7), 10)
Rate85 == FDivInt(FFromInt(85), 100)

estimate_injury_status(availability_rate, minutes) ==
    IF FLess(availability_rate, Rate70) THEN "Frequently Unavailable"
    ELSE IF FLess(availability_rate, Rate85) /\ FLess(minutes, FFromInt(20))
         THEN "Limited Minutes"
    ELSE IF FLess(minutes, FFromInt(15)) THEN "Minimal Role"
    ELSE "Healthy"

\* injury_record of a player with a frame of game rows that is not empty
injury_record(player_name, games_df, season) ==
    LET total == total_team_games(games_df)
        player_games == Len(games_df)
        availability_rate == FDivInt(FFromInt(player_games), Max(total, 1))
    IN [player_name |-> player_name,
        season |-> season,
        availability_rate |-> availability_rate,
        recent_avg_minutes |-> avg_minutes(games_df),
        total_games_played |-> player_games,
        games_missed_estimated |-> Max(0, total - player_games),
        injury_status |-> estimate_injury_status(availability_rate, avg_minutes(games_df))]

RECURSIVE InjuryData(_, _, _)
\* injury_data after the loop over the players: a player whose game-log call
\* raises, or whose frame is empty, adds nothing
InjuryData(names, logs, season) ==
    IF logs = <<>> THEN <<>>
    ELSE LET front == InjuryData(names, SubSeq(logs, 1, Len(logs) - 1), season)
             log == logs[Len(logs)]
         IN IF log.raised \/ log.rows = <<>> THEN front
            ELSE Append(front, injury_record(names[Len(logs)], log.rows, season))

\* the call: what it returns and player_injury_data after it.  fails: the
\* call that raises outside the per-player try, if any
collect_injury_reports(coll, names, logs, season, fails) ==
    IF fails = "players" THEN [ret |-> 0, player_injury_data |-> coll]
    ELSE LET injury_data == InjuryData(names, logs, season)
         IN IF injury_data # <<>> /\ fails = "insert_many"
            THEN [ret |-> 0, player_injury_data |-> coll]
            ELSE [ret |-> Len(injury_data), player_injury_data |-> coll \o injury_data]

\* the players of the model, and the game logs the API can return for one
PlayerNames == <<"P1", "P2">>
LogRows == [GAME_ID : GameIds, MIN : {10, 20}]
GameLogs == UNION {[1..n -> LogRows] : n \in 0..MaxPlayerGames}
PlayerLogs ==
    {[raised |-> TRUE, rows |-> <<>>]} \cup {[raised |-> FALSE, rows |-> g] : g \in GameLogs}

CollectInjuryReports ==
    /\ injury.phase = "input"
    /\ \E fails \in {"none", "players", "insert_many"} :
          LET out == collect_injury_reports(<<>>, PlayerNames, injury.logs, "2023-24", fails)
          IN injury' = [phase |-> "collected", logs |-> injury.logs, fails |-> fails,
                        ret |-> out.ret, player_injury_data |-> out.player_injury_data]
    /\ UNCHANGED rest_vars
    /\ UNCHANGED chem_vars
    /\ UNCHANGED coll_vars
    /\ UNCHANGED <<season_games, moving_window, hybrid, conn, dataset>>

----------------------------------------------------------------------------
(* The program: a database that starts empty, insert_games and derivation  *)
(* runs in any order                                                       *)

Init ==
    /\ games = EmptyBag
    /\ team_rest_fatigue = EmptyBag
    /\ last_call = [op |-> "init", season |-> ""]
    /\ ret = 0
    /\ team_schedules = <<>>
    /\ processed = <<>>
    /\ rest_data = <<>>
    /\ runs = 0
    /\ calc = NoCall
    /\ NoChemistry
    /\ NoCollection
    /\ NoAux

InsertGames == \E games_df \in DataFrames : insert_games(games_df)
CollectTeamRestFatigueData ==
    /\ runs < MaxRuns
    /\ \E season \in Seasons : collect_team_rest_fatigue_data(season)

Next ==
    \/ InsertGames
    \/ CollectTeamRestFatigueData

Spec == Init /\ [][Next]_vars

----------------------------------------------------------------------------
(* The derivation on its own: runs over any collection that insert_games   *)
(* can have filled with up to MaxGames rows, and direct calls of the score *)
(* functions with any arguments                                            *)

StoredCollections == UNION {BagsOf(n, Cardinality(StoredRows)) : n \in 0..MaxGames}

InitDerive ==
    /\ \/ games \in StoredCollections /\ calc = NoCall
       \/ games = EmptyBag /\ calc \in Calls
    /\ team_rest_fatigue = EmptyBag
    /\ last_call = [op |-> "init", season |-> ""]
    /\ ret = 0
    /\ team_schedules = <<>>
    /\ processed = <<>>
    /\ rest_data = <<>>
    /\ runs = 0
    /\ NoChemistry
    /\ NoCollection
    /\ NoAux

DeriveRun ==
    /\ runs < MaxDeriveRuns
    /\ \E season \in Seasons : collect_team_rest_fatigue_data(season)

NextDerive ==
    \/ DeriveRun
    \/ CallScheduleDifficulty
    \/ CallFatigueIndex

SpecDerive == InitDerive /\ [][NextDerive]_vars

----------------------------------------------------------------------------
(* The Chemistry Index on its own: a call on any batch of up to MaxTeams   *)
(* teams, then a recomputation of its first team in another cohort         *)

InitChemistry ==
    /\ games = EmptyBag
    /\ team_rest_fatigue = EmptyBag
    /\ last_call = [op |-> "init", season |-> ""]
    /\ ret = 0
    /\ team_schedules = <<>>
    /\ processed = <<>>
    /\ rest_data = <<>>
    /\ runs = 0
    /\ calc = NoCall
    /\ chemistry_records \in Batches
    /\ prev_records = <<>>
    /\ chem_phase = "input"
    /\ NoCollection
    /\ NoAux

NextChemistry ==
    \/ CalculateChemistryIndex
    \/ RecalculateInCohort

SpecChemistry == InitChemistry /\ [][NextChemistry]_vars

----------------------------------------------------------------------------
(* Collection: a database that starts empty, season collections, reads of  *)
(* db.games and collection statistics in any order                         *)

NextCollect ==
    \/ CollectSeasonGames
    \/ CollectMultipleSeasons

SpecCollect == Init /\ [][NextCollect]_vars

----------------------------------------------------------------------------
(* Reads: get_games and get_collection_stats over any collection that      *)
(* season collections can have filled with up to MaxGames rows             *)

\* the rows the collections of the model store
SeasonRows ==
    {RowNumber(r) : r \in
        UNION {{season_frame(o.response.rows, season).rows[i] :
                   i \in 1..Len(o.response.rows)} :
                 season \in Seasons, o \in {c \in CallOutcomes : reaches_insert(c.response)}}}

SeasonRowList == BagList(SetToBag(SeasonRows))

CollectedCollections ==
    UNION {{SeqToBag([i \in 1..n |-> SeasonRowList[s[i]]]) :
               s \in Ascending(n, Len(SeasonRowList))} : n \in 0..MaxGames}

InitRead ==
    /\ games \in CollectedCollections
    /\ team_rest_fatigue = EmptyBag
    /\ last_call = [op |-> "init", season |-> ""]
    /\ ret = 0
    /\ team_schedules = <<>>
    /\ processed = <<>>
    /\ rest_data = <<>>
    /\ runs = 0
    /\ calc = NoCall
    /\ NoChemistry
    /\ NoCollection
    /\ NoAux

NextRead ==
    \/ GetGames
    \/ GetCollectionStats

SpecRead == InitRead /\ [][NextRead]_vars

----------------------------------------------------------------------------
(* Team statistics: get_team_stats over any collection of up to MaxGames   *)
(* rows that carry the columns it reads                                    *)

StatRowList == [i \in 1..Cardinality(StatRows) |->
                   Len(RowTable) - Cardinality(StatRows) + i]

StatCollections ==
    UNION {{SeqToBag([i \in 1..n |-> StatRowList[s[i]]]) :
               s \in Ascending(n, Len(StatRowList))} : n \in 0..MaxGames}

InitStats ==
    /\ games \in StatCollections
    /\ team_rest_fatigue = EmptyBag
    /\ last_call = [op |-> "init", season |-> ""]
    /\ ret = 0
    /\ team_schedules = <<>>
    /\ processed = <<>>
    /\ rest_data = <<>>
    /\ runs = 0
    /\ calc = NoCall
    /\ NoChemistry
    /\ NoCollection
    /\ NoAux

NextStats == GetTeamStats

SpecStats == InitStats /\ [][NextStats]_vars

----------------------------------------------------------------------------
(* A season of one team: the derivation over the list that the query       *)
(* returns for a team with up to MaxSchedule games, each on the day of the  *)
(* game before it or on the next day                                        *)

\* the gaps in days between consecutive games of a schedule: a schedule with
\* double dates, or one with distinct dates
ScheduleGaps == {{0, 1}, {1, 3}}

RECURSIVE ScheduleDays(_, _)
\* the days of n games in the order of the query, the first on day 0
ScheduleDays(n, gaps) ==
    IF n = 1 THEN {<<0>>}
    ELSE {Append(s, s[Len(s)] + g) : s \in ScheduleDays(n - 1, gaps), g \in gaps}

ScheduleRows(days) ==
    [i \in 1..Len(days) |->
        [TEAM_NAME |-> "A", GAME_ID |-> i, SEASON |-> "2023-24",
         GAME_DATE |-> DtVal(days[i])]]

Schedules ==
    {ScheduleRows(days) :
        days \in UNION {ScheduleDays(n, gaps) : n \in 1..MaxSchedule, gaps \in ScheduleGaps}}

InitSchedule ==
    /\ games = EmptyBag
    /\ team_rest_fatigue = EmptyBag
    /\ last_call = [op |-> "init", season |-> ""]
    /\ ret = 0
    /\ team_schedules = <<>>
    /\ processed = <<>>
    /\ rest_data = <<>>
    /\ runs = 0
    /\ calc = NoCall
    /\ NoChemistry
    /\ NoCollection
    /\ season_games \in Schedules
    /\ moving_window = 0
    /\ hybrid = Idle
    /\ conn = Idle
    /\ dataset = Idle
    /\ injury = Idle

\* collect_team_rest_fatigue_data where the query returns season_games
DeriveSchedule ==
    /\ runs = 0
    /\ runs' = 1
    /\ last_call' = [op |-> "collect_team_rest_fatigue_data", season |-> "2023-24"]
    /\ DeriveFrom(season_games, "2023-24")
    /\ UNCHANGED <<games, calc>>
    /\ UNCHANGED chem_vars
    /\ UNCHANGED coll_vars
    /\ UNCHANGED aux_vars

NextSchedule == DeriveSchedule

SpecSchedule == InitSchedule /\ [][NextSchedule]_vars

----------------------------------------------------------------------------
(* The hybrid collector's Chemistry Index on its own: a call on any hustle  *)
(* frame of up to MaxTeams teams                                           *)

InitHybrid ==
    /\ games = EmptyBag
    /\ team_rest_fatigue = EmptyBag
    /\ last_call = [op |-> "init", season |-> ""]
    /\ ret = 0
    /\ team_schedules = <<>>
    /\ processed = <<>>
    /\ rest_data = <<>>
    /\ runs = 0
    /\ calc = NoCall
    /\ NoChemistry
    /\ NoCollection
    /\ season_games = <<>>
    /\ moving_window = 0
    /\ hybrid \in [phase : {"input"}, hustle : HustleFrames, db_fails : {FALSE},
                   ret : {0}, team_chemistry_index : {<<>>}]
    /\ conn = Idle
    /\ dataset = Idle
    /\ injury = Idle

NextHybrid == CalculateTeamChemistryIndex

SpecHybrid == InitHybrid /\ [][NextHybrid]_vars

----------------------------------------------------------------------------
(* connect_with_retry on its own: one call with up to MaxRetries retries    *)

InitConnect == Init

NextConnect == ConnectWithRetry

SpecConnect == InitConnect /\ [][NextConnect]_vars

----------------------------------------------------------------------------
(* collect_complete_dataset on its own: one run with any outcome of the     *)
(* collector calls                                                          *)

InitDataset == Init

NextDataset == CollectCompleteDataset

SpecDataset == InitDataset /\ [][NextDataset]_vars

----------------------------------------------------------------------------
(* collect_injury_reports on its own: one call with any game logs of up to  *)
(* MaxPlayerGames rows for each player                                      *)

InitInjury ==
    /\ games = EmptyBag
    /\ team_rest_fatigue = EmptyBag
    /\ last_call = [op |-> "init", season |-> ""]
    /\ ret = 0
    /\ team_schedules = <<>>
    /\ processed = <<>>
    /\ rest_data = <<>>
    /\ runs = 0
    /\ calc = NoCall
    /\ NoChemistry
    /\ NoCollection
    /\ season_games = <<>>
    /\ moving_window = 0
    /\ hybrid = Idle
    /\ conn = Idle
    /\ dataset = Idle
    /\ \E n \in 0..Len(PlayerNames) :
          injury \in [phase : {"input"}, logs : [1..n -> PlayerLogs], fails : {"none"},
                      ret : {0}, player_injury_data : {<<>>}]

NextInjury == CollectInjuryReports

SpecInjury == InitInjury /\ [][NextInjury]_vars

----------------------------------------------------------------------------
(* Properties *)

Ran == last_call.op = "collect_team_rest_fatigue_data"

\* rest_data as a set of records
Emitted == {rest_data[k] : k \in 1..Len(rest_data)}

\* a date the derivation can compute with: a datetime or a string that parses
ValidDate(v) == v.k = "dt" \/ (v.k = "str" /\ ~to_datetime_raises(v.s))

\* the stored rows of team t in the season of the last call
TeamRows(t) ==
    {n \in BagToSet(games) :
        RowTable[n].SEASON = last_call.season /\ RowTable[n].TEAM_NAME = t}

\* C1 as claimed: in every emitted record is_back_to_back holds exactly when
\* days_rest is 0, the first game of a team included
C1_BackToBackIffZeroRest ==
    \A r \in Emitted : r.is_back_to_back <=> r.days_rest = 0

\* C1 as amended: the record of the game at the head of its team's sorted list
\* has days_rest 0 and is not back-to-back; in the record of every later game
\* is_back_to_back holds exactly when days_rest is 0
C1_BackToBackIffZeroRestAfterFirst ==
    \A t \in DOMAIN processed : \A i \in 1..Len(processed[t]) :
        processed[t][i] # <<>> =>
            LET r == processed[t][i][1]
            IN IF i = 1
               THEN r.days_rest = 0 /\ ~r.is_back_to_back
               ELSE r.is_back_to_back <=> r.days_rest = 0

C1_Witness ==
    \E t \in DOMAIN processed :
        /\ Len(processed[t]) >= 3
        /\ \A i \in 1..3 : processed[t][i] # <<>>
        /\ processed[t][2][1].is_back_to_back
        /\ processed[t][3][1].days_rest < 0

\* C2: days_rest of every emitted record is at least 0
C2_DaysRestNonNegative ==
    \A r \in Emitted : r.days_rest >= 0

\* C3: schedule_difficulty is within [0, 1] in every emitted record and as
\* the result of every direct call
C3_ScheduleDifficultyInUnitInterval ==
    /\ \A r \in Emitted : r.schedule_difficulty >= 0 /\ r.schedule_difficulty <= SdOne
    /\ (calc.fn = "schedule_difficulty" /\ calc.done) =>
           (calc.result >= 0 /\ calc.result <= SdOne)

\* C4: fatigue_index is within [0, 1] in every emitted record and as the
\* result of every direct call
C4_FatigueIndexInUnitInterval ==
    /\ \A r \in Emitted : r.fatigue_index >= 0 /\ r.fatigue_index <= FiOne
    /\ (calc.fn = "fatigue_index" /\ calc.done) =>
           (calc.result >= 0 /\ calc.result <= FiOne)

\* a direct call whose three terms add up to the cap, 0.4 + 0.3 + 0.3
C4_Witness ==
    /\ calc.fn = "fatigue_index" /\ calc.done
    /\ calc.is_back_to_back /\ calc.days_rest = 0 /\ calc.games_in_7_days >= 4
    /\ calc.result = FiOne

\* C5: after a run, every team with a dated game has a record of its earliest
\* game, with days_rest 0 and not back-to-back
C5_FirstGameRecord ==
    Ran =>
        \A t \in TeamNames :
            LET dated == {n \in TeamRows(t) : ValidDate(RowTable[n].GAME_DATE)}
            IN dated # {} =>
                \E n \in dated :
                    /\ \A m \in dated :
                          Conv(RowTable[n].GAME_DATE).d <= Conv(RowTable[m].GAME_DATE).d
                    /\ \E r \in Emitted :
                          /\ r.team_name = t
                          /\ r.game_id = RowTable[n].GAME_ID
                          /\ r.game_date = Conv(RowTable[n].GAME_DATE)
                          /\ r.days_rest = 0
                          /\ ~r.is_back_to_back

\* C6: a run emits, for every team it handled, exactly the records of the
\* team's dated rows, computed as if the rows without a usable date were not
\* stored
C6_BadRowsSkippedOthersKept ==
    Ran =>
        \A t \in DOMAIN processed :
            LET dated == SelectSeq(team_schedules[t], LAMBDA g : ValidDate(g.GAME_DATE))
            IN Flatten(processed[t]) =
                   [i \in 1..Len(dated) |-> rest_record(t, dated, i, last_call.season)]

\* C7: after a run, the records of every team whose rows all carry a datetime
\* are stored and the run did not return 0, whatever the rows of other teams
C7_NoWholeRunAbort ==
    Ran =>
        \A t \in TeamNames :
            (TeamRows(t) # {} /\ \A n \in TeamRows(t) : RowTable[n].GAME_DATE.k = "dt") =>
                /\ ret > 0
                /\ \A n \in TeamRows(t) :
                      \E r \in BagToSet(team_rest_fatigue) :
                          /\ r.team_name = t
                          /\ r.game_id = RowTable[n].GAME_ID
                          /\ r.game_date = RowTable[n].GAME_DATE

\* C8: while db.games holds each (team, game) row once, team_rest_fatigue
\* holds at most one record per (team_name, game_id)
C8_OneRecordPerTeamGame ==
    (\A n \in BagToSet(games) : games[n] = 1
        /\ \A m \in BagToSet(games) :
              (RowTable[m].TEAM_NAME = RowTable[n].TEAM_NAME
                 /\ RowTable[m].GAME_ID = RowTable[n].GAME_ID) => m = n)
    => \A r \in BagToSet(team_rest_fatigue) :
          /\ team_rest_fatigue[r] = 1
          /\ \A q \in BagToSet(team_rest_fatigue) :
                (q.team_name = r.team_name /\ q.game_id = r.game_id) => q = r

\* C9: a derivation run leaves db.games as it was
C9_RunLeavesGamesUnchanged ==
    [][runs' # runs => games' = games]_vars

\* a run that stored records and skipped a game, over rows without a date
C9_Witness ==
    /\ Ran
    /\ rest_data # <<>>
    /\ BagCardinality(team_rest_fatigue) = Len(rest_data)
    /\ \E t \in DOMAIN processed : \E i \in 1..Len(processed[t]) : processed[t][i] = <<>>
    /\ \E n \in BagToSet(games) : IsNone(RowTable[n].GAME_DATE)

\* C10: the record of a game played the day after the team's previous game
\* has days_rest 0, is back-to-back and has fatigue_index >= 0.7
C10_NextDayGameIsBackToBack ==
    \A t \in DOMAIN processed : \A i \in 2..Len(processed[t]) :
        (/\ processed[t][i] # <<>>
         /\ SubDays(team_schedules[t][i].GAME_DATE, team_schedules[t][i - 1].GAME_DATE) = 1)
        => LET r == processed[t][i][1]
           IN r.days_rest = 0 /\ r.is_back_to_back /\ r.fatigue_index >= 7

C10_Witness ==
    \E t \in DOMAIN processed :
        /\ Len(processed[t]) >= 2
        /\ processed[t][2] # <<>>
        /\ team_schedules[t][1].GAME_DATE = DtVal(0)
        /\ team_schedules[t][2].GAME_DATE = DtVal(1)
        /\ processed[t][2][1].fatigue_index = 7

----------------------------------------------------------------------------
(* Properties of the Chemistry Index *)

\* a call has returned
Calculated == chem_phase \in {"calculated", "recalculated"}

\* raw value, scaled value and batch extremes of metric k, read from records
\* as returned
RawOf(records, i, k) == Get(records[i], metrics[k])
ScaledOf(records, i, k) == records[i][ScaledName(metrics[k])]
ColMin(records, k) ==
    CHOOSE v \in {RawOf(records, i, k) : i \in 1..Len(records)} :
        \A j \in 1..Len(records) : v <= RawOf(records, j, k)
ColMax(records, k) ==
    CHOOSE v \in {RawOf(records, i, k) : i \in 1..Len(records)} :
        \A j \in 1..Len(records) : v >= RawOf(records, j, k)

F100 == FFromInt(FeatureMax)

\* C11: in a batch of two or more teams, for a metric whose raw values are
\* not all equal, a team at the batch maximum has scaled value 100, a team
\* at the batch minimum has 0, and every other team has
\* (value - min) / (max - min) * 100
C11_MaxScaledTo100MinTo0 ==
    (Calculated /\ Len(chemistry_records) >= 2) =>
        \A k \in 1..Len(metrics) :
            LET lo == ColMin(chemistry_records, k)
                hi == ColMax(chemistry_records, k)
            IN lo # hi =>
                \A i \in 1..Len(chemistry_records) :
                    LET v == RawOf(chemistry_records, i, k)
                    IN ScaledOf(chemistry_records, i, k) =
                          IF v = hi THEN F100
                          ELSE IF v = lo THEN FZero
                          ELSE FMul(FDivInt(FFromInt(v - lo), hi - lo), F100)

\* C12: a metric with the same raw value for every team of the batch, a
\* single-team batch included, is scaled to exactly 0 for every team
C12_ConstantMetricScaledToZero ==
    Calculated =>
        \A k \in 1..Len(metrics) :
            (chemistry_records # <<>>
               /\ ColMin(chemistry_records, k) = ColMax(chemistry_records, k)) =>
                \A i \in 1..Len(chemistry_records) :
                    /\ ScaledName(metrics[k]) \in DOMAIN chemistry_records[i]
                    /\ ScaledOf(chemistry_records, i, k) = FZero

\* a single team with a positive metric, and two teams level on a positive metric
C12_Witness ==
    /\ Calculated
    /\ Len(chemistry_records) = 2
    /\ \E k \in 1..Len(metrics) :
          /\ RawOf(chemistry_records, 1, k) = 7
          /\ RawOf(chemistry_records, 2, k) = 7
          /\ ScaledOf(chemistry_records, 1, k) = FZero
          /\ ScaledOf(chemistry_records, 2, k) = FZero

\* C13: chemistry_index of every team is the mean of its four scaled values
\* and lies in [0, 100]
C13_IndexIsMeanWithin0And100 ==
    Calculated =>
        \A i \in 1..Len(chemistry_records) :
            LET r == chemistry_records[i]
            IN /\ r.chemistry_index =
                     FDivInt(FSum(<<r.screen_assists_scaled, r.secondary_assists_scaled,
                                    r.contested_shots_scaled, r.deflections_scaled>>), 4)
               /\ FLeq(FZero, r.chemistry_index)
               /\ FLeq(r.chemistry_index, F100)

\* C14: a call on a batch returns every record with a chemistry_index, its
\* other fields as they were, an absent metric counting as 0; a team whose
\* four metrics are all absent or 0, while every metric is positive for
\* some other team, gets chemistry_index 0
C14_AbsentMetricsCountAsZero ==
    [][(chem_phase = "input" /\ chem_phase' = "calculated") =>
          /\ Len(chemistry_records') = Len(chemistry_records)
          /\ \A i \in 1..Len(chemistry_records) :
                /\ DOMAIN chemistry_records'[i] = DOMAIN chemistry_records[i] \cup DerivedFields
                /\ \A f \in DOMAIN chemistry_records[i] :
                      chemistry_records'[i][f] = chemistry_records[i][f]
                /\ \A k \in 1..Len(metrics) :
                      (metrics[k] \notin DOMAIN chemistry_records[i]
                         /\ ColMax(chemistry_records, k) > 0) =>
                          ScaledOf(chemistry_records', i, k) = FZero
                /\ ((\A k \in 1..Len(metrics) : RawOf(chemistry_records, i, k) = 0)
                      /\ \A k \in 1..Len(metrics) : ColMax(chemistry_records, k) > 0) =>
                       chemistry_records'[i].chemistry_index = FZero]_vars

\* a team without any metric next to a team with four positive metrics
C14_Witness ==
    /\ chem_phase = "calculated"
    /\ Len(chemistry_records) = 2
    /\ DOMAIN chemistry_records[1] \cap MetricNames = {}
    /\ \A k \in 1..Len(metrics) : RawOf(chemistry_records, 2, k) > 0
    /\ chemistry_records[1].chemistry_index = FZero
    /\ chemistry_records[2].chemistry_index # FZero

\* the derived fields of a returned record
Derived(record) == [f \in DerivedFields |-> record[f]]

\* the two cohorts of a recomputation have the same extremes in every metric
SameExtremes ==
    \A k \in 1..Len(metrics) :
        /\ ColMin(prev_records, k) = ColMin(chemistry_records, k)
        /\ ColMax(prev_records, k) = ColMax(chemistry_records, k)

\* C15 as claimed: the result of a team depends on its raw values and the
\* extremes of its cohort only, and recomputed in a different cohort the
\* team gets a different result
C15_DifferentCohortDifferentResult ==
    (chem_phase = "recalculated" /\ chemistry_records # <<>>) =>
        /\ SameExtremes => Derived(chemistry_records[1]) = Derived(prev_records[1])
        /\ Derived(chemistry_records[1]) # Derived(prev_records[1])

\* C15 as amended: recomputed in a cohort with the same extremes in every
\* metric, the team gets the same result; the result differs only when some
\* extreme differs
C15_SameExtremesSameResult ==
    (chem_phase = "recalculated" /\ chemistry_records # <<>>) =>
        (SameExtremes => Derived(chemistry_records[1]) = Derived(prev_records[1]))

\* a recomputation in a larger cohort with the same extremes
C15_Witness ==
    /\ chem_phase = "recalculated"
    /\ Len(chemistry_records) > Len(prev_records)
    /\ SameExtremes
    /\ chemistry_records[1].chemistry_index # FZero
    /\ Derived(chemistry_records[1]) = Derived(prev_records[1])

----------------------------------------------------------------------------
(* Properties of the collection and of the reads *)

MultiRan == request.op = "collect_multiple_seasons"

\* the collect_season_games calls and the pauses of the last run, in order
CallsMade == SelectSeq(events, LAMBDA e : e.ev = "collect_season_games")
PausesMade == SelectSeq(events, LAMBDA e : e.ev = "_rate_limit")

\* the position of the last entry of a list that names the season
LastListed(seasons, season) ==
    CHOOSE i \in 1..Len(seasons) :
        /\ seasons[i] = season
        /\ \A j \in (i + 1)..Len(seasons) : seasons[j] # season

\* C16: collect_multiple_seasons(seasons) calls collect_season_games exactly
\* once per listed season, in list order, returns a dict that maps every
\* listed season to the count that call returned, and makes exactly
\* len(seasons) - 1 pauses of its own.
C16_OncePerSeasonWithLenMinusOnePauses ==
    MultiRan =>
        /\ Len(CallsMade) = Len(request.seasons)
        /\ \A i \in 1..Len(request.seasons) :
              CallsMade[i].season = request.seasons[i]
        /\ DOMAIN ret = {request.seasons[i] : i \in 1..Len(request.seasons)}
        /\ \A i \in 1..Len(request.seasons) :
              ret[request.seasons[i]] = CallsMade[i].returned
        /\ Len(PausesMade) = Len(request.seasons) - 1

\* C16 (amended): collect_multiple_seasons(seasons) calls
\* collect_season_games once per entry of the list, in list order, returns a
\* dict that maps every listed season to the count returned by the last call
\* made for it, and pauses between consecutive calls only: a call, then a
\* pause and a call for every further entry, and nothing for an empty list.
C16_OncePerEntryLastCountPausesBetween ==
    MultiRan =>
        /\ Len(CallsMade) = Len(request.seasons)
        /\ \A i \in 1..Len(request.seasons) :
              CallsMade[i].season = request.seasons[i]
        /\ DOMAIN ret = {request.seasons[i] : i \in 1..Len(request.seasons)}
        /\ \A season \in DOMAIN ret :
              ret[season] = CallsMade[LastListed(request.seasons, season)].returned
        /\ Len(events) = IF request.seasons = <<>> THEN 0
                         ELSE 2 * Len(request.seasons) - 1
        /\ \A j \in 1..Len(events) :
              events[j].ev = IF j % 2 = 1 THEN "collect_season_games" ELSE "_rate_limit"

\* a run over two different seasons whose calls returned different counts
C16_Witness ==
    /\ MultiRan
    /\ Len(request.seasons) >= 2
    /\ request.seasons[1] # request.seasons[2]
    /\ ret[request.seasons[1]] # ret[request.seasons[2]]
    /\ Len(PausesMade) = Len(request.seasons) - 1

\* C17: collect_season_games never propagates an exception; when the API
\* call raises or returns an empty result it returns 0 and leaves db.games
\* unchanged, and otherwise it returns the number of rows insert_games
\* inserted.
C17_ZeroOnFailureElseInsertedCount ==
    [][request'.op = "collect_season_games" =>
          /\ ret' \in Nat
          /\ IF request'.response.raises \/ request'.response.rows = <<>>
             THEN ret' = 0 /\ games' = games
             ELSE ret' = BagCardinality(games') - BagCardinality(games)]_vars

\* the API raised on a database that already holds games
C17_Witness ==
    /\ request.op = "collect_season_games"
    /\ request.response.raises
    /\ games # EmptyBag
    /\ ret = 0

\* the rows of a collection with the GAME_ID and TEAM_ID of row n
SameGameAndTeam(coll, n) ==
    LET S == {m \in BagToSet(coll) :
                 /\ RowTable[m].GAME_ID = RowTable[n].GAME_ID
                 /\ TeamId(RowTable[m].TEAM_NAME) = TeamId(RowTable[n].TEAM_NAME)}
    IN [m \in S |-> coll[m]]

\* C18: insert_games makes no second copy of a game row that is already
\* stored, returns the number of new rows it inserted (0 for a batch that is
\* stored already, 0 for an empty DataFrame), and after any sequence of
\* calls db.games holds each (GAME_ID, TEAM_ID) row at most once.
C18_NoSecondCopyOfAGameRow ==
    [][last_call'.op = "insert_games" =>
          /\ \A n \in BagToSet(games) : games'[n] = games[n]
          /\ ret' = BagCardinality(games') - BagCardinality(games)
          /\ \A n \in BagToSet(games') :
                BagCardinality(SameGameAndTeam(games', n)) <= 1]_vars

\* a row meets the filter arguments that were passed
MeetsSupplied(row, a) ==
    /\ a.team_id # None => TeamId(row.TEAM_NAME) = a.team_id[1]
    /\ a.season # None => row.SEASON = a.season[1]
    /\ a.start_date # None =>
          row.GAME_DATE.k = "dt" /\ a.start_date[1] <= row.GAME_DATE.d
    /\ a.end_date # None =>
          row.GAME_DATE.k = "dt" /\ row.GAME_DATE.d <= a.end_date[1]

\* C19: every game get_games returns meets every filter argument that was
\* supplied, at most limit games are returned when limit is supplied, the
\* _id field is absent, and a query that matches nothing returns an empty
\* DataFrame.
C19_ReturnedGamesMeetFiltersWithinLimit ==
    (request.op = "get_games" /\ ~request.read_fails) =>
        /\ ret # Raised
        /\ \A n \in BagToSet(ret.rows) : MeetsSupplied(RowTable[n], request.args)
        /\ request.args.limit # None =>
              BagCardinality(ret.rows) <= request.args.limit[1]
        /\ "_id" \notin ret.columns
        /\ (\A n \in BagToSet(games) : ~MeetsSupplied(RowTable[n], request.args))
              => ret = EmptyDataFrame

\* C20: get_collection_stats returns a dict with the keys total_games,
\* seasons, teams and date_range whatever the state of the database:
\* populated, empty or failing on read.
C20_StatsAlwaysHaveTheFourKeys ==
    request.op = "get_collection_stats" =>
        {"total_games", "seasons", "teams", "date_range"} \subseteq DOMAIN ret

\* the stored games that match the arguments of the last get_team_stats
StatsMatches ==
    TeamStatsGames(games, request.team_id, request.season, request.season_type)

\* C21: get_team_stats returns {} when no stored game matches, and
\* otherwise a dict with team_id equal to the argument, total_games the
\* number of matching games, wins the number of those with WL = 'W',
\* wins + losses = total_games and 0 <= win_percentage <= 1.
C21_TeamStatsOfMatchingGames ==
    (request.op = "get_team_stats" /\ ~request.read_fails) =>
        IF StatsMatches = EmptyBag THEN DOMAIN ret = {}
        ELSE /\ DOMAIN ret # {}
             /\ ret.team_id = request.team_id
             /\ ret.total_games = BagCardinality(StatsMatches)
             /\ ret.wins = Wins(StatsMatches)
             /\ ret.wins + ret.losses = ret.total_games
             /\ FLeq(FZero, ret.win_percentage)
             /\ FLeq(ret.win_percentage, FFromInt(1))

----------------------------------------------------------------------------
(* Properties of the schedule density *)

\* the games of the look-back window of game i that count
Counted(gs, i) ==
    {j \in 1..(i - 1) :
        /\ j >= i - 10
        /\ gs[i].GAME_DATE.d - gs[j].GAME_DATE.d <= 7}

\* C22: the record of the game at index i of a team's sorted list has
\* games_in_last_7_days = 1 + the number of the games at the up to 10 indices
\* before i that are dated at most 7 days before it, a value between 1 and 11
C22_DensityOverTenGames ==
    \A t \in DOMAIN processed : \A i \in 1..Len(processed[t]) :
        processed[t][i] # <<>> =>
            LET r == processed[t][i][1]
            IN /\ r.games_in_last_7_days = 1 + Cardinality(Counted(team_schedules[t], i))
               /\ r.games_in_last_7_days \in 1..11

\* a twelfth game on the date of the eleven before it: the first is not counted
C22_Witness ==
    \E t \in DOMAIN processed :
        /\ Len(processed[t]) >= 12
        /\ processed[t][12] # <<>>
        /\ team_schedules[t][12].GAME_DATE = team_schedules[t][1].GAME_DATE
        /\ processed[t][12][1].games_in_last_7_days = 11

\* the dates of the games of list gs are pairwise distinct
DistinctDates(gs) ==
    \A j, k \in 1..Len(gs) : j # k => gs[j].GAME_DATE # gs[k].GAME_DATE

\* the games of the whole list dated from 0 to 7 days before game i, itself
\* included
InWindow(gs, i) ==
    {j \in 1..Len(gs) :
        gs[i].GAME_DATE.d - gs[j].GAME_DATE.d \in 0..7}

\* C29: for a team whose games are on pairwise distinct dates, every record's
\* games_in_last_7_days is the number of the team's games of the whole season
\* dated from 0 to 7 days before the game, itself included, and is at most 8
C29_LookBackLosesNothing ==
    \A t \in DOMAIN processed :
        DistinctDates(team_schedules[t]) =>
            \A i \in 1..Len(processed[t]) :
                processed[t][i] # <<>> =>
                    LET r == processed[t][i][1]
                    IN /\ r.games_in_last_7_days = Cardinality(InWindow(team_schedules[t], i))
                       /\ r.games_in_last_7_days <= 8

\* a game on each of at least twelve distinct dates, eight of them in the week
\* up to the ninth, and fewer in the week up to the last
C29_Witness ==
    \E t \in DOMAIN processed :
        /\ DistinctDates(team_schedules[t])
        /\ Len(processed[t]) >= 12
        /\ processed[t][9] # <<>>
        /\ processed[t][9][1].games_in_last_7_days = 8
        /\ processed[t][12] # <<>>
        /\ processed[t][12][1].games_in_last_7_days < 8

----------------------------------------------------------------------------
(* Properties of the first game of a team *)

\* C28: the record of the first game of a team's sorted list has
\* games_in_last_7_days = 1, fatigue_index = 0.3 and
\* schedule_difficulty = 0.6 * (1/7) + 0.4 * 1
C28_FirstGameAsZeroRest ==
    \A t \in DOMAIN processed :
        (Len(processed[t]) >= 1 /\ processed[t][1] # <<>>) =>
            LET r == processed[t][1][1]
            IN /\ r.games_in_last_7_days = 1
               /\ 10 * r.fatigue_index = 3 * FiOne
               /\ 70 * r.schedule_difficulty = 6 * SdOne + 28 * SdOne

\* a team with two games and the record of its first
C28_Witness ==
    \E t \in DOMAIN processed :
        /\ Len(processed[t]) >= 2
        /\ processed[t][1] # <<>>
        /\ processed[t][2] # <<>>
        /\ processed[t][1][1].days_rest = 0
        /\ processed[t][1][1].fatigue_index = 3
        /\ processed[t][1][1].schedule_difficulty = 102
        /\ processed[t][2][1].fatigue_index # 3

----------------------------------------------------------------------------
(* Properties of the order of the rows *)

\* the records a run makes of the list all_games
RecordsOf(all_games, season) ==
    LET out == Analyze(all_games, season).rest_data
    IN {out[k] : k \in 1..Len(out)}

\* the records of S for the pair (team_name, game_id) of record r
SamePair(S, r) == {q \in S : q.team_name = r.team_name /\ q.game_id = r.game_id}

\* C23: the records of a run do not depend on the order of the rows: in every
\* order the query can return the rows of the season in, a (team_name, game_id)
\* pair with one record gets the record with the same days_rest,
\* is_back_to_back, games_in_last_7_days, schedule_difficulty, fatigue_index
C23_OrderIndependent ==
    Ran =>
        \A all_games \in FindSorted(last_call.season) :
            \A S \in {RecordsOf(all_games, last_call.season)} :
                \A r \in Emitted :
                    (Cardinality(SamePair(Emitted, r)) = 1 /\ Cardinality(SamePair(S, r)) = 1)
                    => \A q \in SamePair(S, r) :
                          /\ q.days_rest = r.days_rest
                          /\ q.is_back_to_back = r.is_back_to_back
                          /\ q.games_in_last_7_days = r.games_in_last_7_days
                          /\ q.schedule_difficulty = r.schedule_difficulty
                          /\ q.fatigue_index = r.fatigue_index

----------------------------------------------------------------------------
(* Properties of the hybrid collector's Chemistry Index *)

\* C25: a call on a frame with fewer than two of the four metrics returns 0
\* and stores nothing, and every chemistry_score a call stores lies between 0
\* and 100, as a mean of metrics scaled 0-100 does
C25_ScoreOfScaledMetrics ==
    hybrid.phase = "calculated" =>
        /\ Len(chemistry_metrics(FrameColumns(hybrid.hustle))) < 2 =>
              (hybrid.ret = 0 /\ hybrid.team_chemistry_index = <<>>)
        /\ \A i \in 1..Len(hybrid.team_chemistry_index) :
              /\ FLeq(FZero, hybrid.team_chemistry_index[i].chemistry_score)
              /\ FLeq(hybrid.team_chemistry_index[i].chemistry_score, FFromInt(100))

----------------------------------------------------------------------------
(* Properties of connect_with_retry *)

\* the connects and the sleeps of the call
Connects == SelectSeq(conn.log, LAMBDA x : x.e = "connect")
Sleeps == SelectSeq(conn.log, LAMBDA x : x.e = "sleep")
FailedConnects == SelectSeq(Connects, LAMBDA x : x.outcome # "ok")

\* C26: a call makes at most max_retries attempts and none after a success,
\* sleeps 2^attempt seconds after each failed attempt but the last, raises the
\* error of the last attempt exactly when all max_retries attempts fail, and
\* returns only with a connection made
C26_RetryUntilConnected ==
    conn.phase = "called" =>
        /\ Len(Connects) <= conn.max_retries
        /\ \A k \in 1..Len(Connects) :
              Connects[k].outcome = "ok" => k = Len(Connects)
        /\ \A k \in 1..Len(conn.log) :
              (conn.log[k].e = "connect" /\ conn.log[k].outcome # "ok"
                 /\ conn.log[k].attempt # conn.max_retries - 1)
              => /\ k < Len(conn.log)
                 /\ conn.log[k + 1].e = "sleep"
                 /\ conn.log[k + 1].seconds = 2 ^ conn.log[k].attempt
        /\ Len(Sleeps) = Len(FailedConnects) - (IF conn.result = "raised" THEN 1 ELSE 0)
        /\ conn.result = "raised" <=> Len(FailedConnects) = conn.max_retries
        /\ conn.result = "raised" => conn.error = Connects[Len(Connects)].outcome
        /\ conn.result = "returned" => conn.connected

----------------------------------------------------------------------------
(* Properties of collect_complete_dataset *)

RECURSIVE SumOver(_, _)
\* the sum of f over the set S of its arguments
SumOver(f, S) ==
    IF S = {} THEN 0
    ELSE LET x == CHOOSE y \in S : TRUE IN f[x] + SumOver(f, S \ {x})

\* the phases whose calls all returned
Successful == {k \in 1..7 : ~PhaseRaises(k, dataset.outcomes[k])}

\* C27: a run attempts the phases 1..7 once each and in order whatever fails,
\* each phase adds one entry to phases_completed or to errors, 7 in all, and
\* total_records is the sum of the counts the successful phases 1-5 returned
C27_SevenPhasesOneEntryEach ==
    dataset.phase = "collected" =>
        LET s == dataset.collection_summary
        IN /\ s.attempted = <<1, 2, 3, 4, 5, 6, 7>>
           /\ Len(s.phases_completed) + Len(s.errors) = 7
           /\ \A k \in 1..7 :
                 Cardinality({i \in 1..Len(s.phases_completed) :
                                  s.phases_completed[i].phase = PhaseNames[k]})
                   + Cardinality({i \in 1..Len(s.errors) : s.errors[i] = k}) = 1
           /\ s.total_records =
                 SumOver([k \in 1..5 |->
                             IF k = 1
                             THEN dataset.outcomes[1].regular[1]
                                    + dataset.outcomes[1].playoffs[1]
                             ELSE dataset.outcomes[k][1]],
                         Successful \cap 1..5)

\* a run in which Phase 1 fails in its second call, Phase 3 fails, the other
\* phases succeed and Phase 2 returns records
C27_Witness ==
    /\ dataset.phase = "collected"
    /\ dataset.outcomes[1] = [regular |-> <<2>>, playoffs |-> <<>>]
    /\ dataset.outcomes[3] = <<>>
    /\ Successful = {2, 4, 5, 6, 7}
    /\ dataset.collection_summary.total_records = 6
    /\ Len(dataset.collection_summary.errors) = 2

----------------------------------------------------------------------------
(* Properties of collect_injury_reports *)

\* the game rows of the player of a stored record
RowsOf(r) ==
    LET k == CHOOSE k \in 1..Len(PlayerNames) : PlayerNames[k] = r.player_name
    IN injury.logs[k].rows

\* C30: every stored record has availability_rate >= 1 and
\* games_missed_estimated = 0, and its injury_status is 'Minimal Role' when
\* the mean of the minutes of the player's up to ten first rows is below 15
\* and 'Healthy' otherwise
C30_StatusFromMinutesOnly ==
    injury.phase = "collected" =>
        \A i \in 1..Len(injury.player_injury_data) :
            LET r == injury.player_injury_data[i]
                recent == SubSeq(RowsOf(r), 1, Min(10, Len(RowsOf(r))))
            IN /\ FLeq(FFromInt(1), r.availability_rate)
               /\ r.games_missed_estimated = 0
               /\ r.injury_status \notin {"Frequently Unavailable", "Limited Minutes"}
               /\ r.injury_status =
                     IF SumMin(recent) < 15 * Len(recent) THEN "Minimal Role" ELSE "Healthy"

\* a call that stores a record for each of two players: one played two rows of
\* one game for a mean of 10 minutes, the other two games for a mean of 15
C30_Witness ==
    /\ injury.phase = "collected"
    /\ Len(injury.player_injury_data) = 2
    /\ injury.player_injury_data[1].availability_rate = FFromInt(2)
    /\ injury.player_injury_data[1].injury_status = "Minimal Role"
    /\ injury.player_injury_data[2].availability_rate = FFromInt(1)
    /\ injury.player_injury_data[2].total_games_played = 2
    /\ injury.player_injury_data[2].recent_avg_minutes = FFromInt(15)
    /\ injury.player_injury_data[2].injury_status = "Healthy"

====
